---- MODULE Spec2Model ----
(***************************************************************************)
(* Model of the ecommerce-ai-assistant backend: the price normalizer       *)
(* (backend/services/price.py) and the retrieval / prompt pipeline         *)
(* (backend/services/gemini_chain.py).                                     *)
(*                                                                         *)
(* Python strings are sequences of one-character strings, so that strip,   *)
(* lower, isdigit and the regular expressions are computed character by    *)
(* character.  Literal text that the code never inspects may be a single   *)
(* multi-character element; Str flattens a sequence to a TLA+ string.      *)
(***************************************************************************)
EXTENDS Integers, Sequences, FiniteSets, TLC

VARIABLES
    pc,         \* position of the caller: which call is pending or done
    value,      \* format_price: the value argument
    currency,   \* format_price: the currency argument
    result,     \* format_price: the returned value
    query,      \* the query argument of _get_context / generate_response
    search,     \* outcome of vectorstore.similarity_search for this call
    ctx,        \* locals of _get_context at its return
    history,    \* contents of the caller's history list
    api_key,    \* os.getenv("GOOGLE_API_KEY")
    gen,        \* outcome of model.generate_content for this call
    ret,        \* outcome of the last generate_response call
    client,     \* the Prisma client: is it connected, calls of connect / disconnect
    tasks,      \* concurrent connect_db coroutines: the position of each
    ops,        \* the handlers and functions called so far, in order
    store,      \* outcome of prisma.product.find_many() for this request
    body,       \* JSON body of the chat request
    http,       \* the HTTP response to the last request
    env,        \* process environment read by vector_store.py
    vsmod,      \* outcome of importing vector_store.py
    pinecone,   \* the Pinecone service: indexes listed, the index's state, upserts
    df,         \* rows of the data frame a script works on (products, CSV rows)
    local       \* local variables of the running script function

vars == <<pc, value, currency, result, query, search, ctx, history, api_key, gen, ret,
          client, tasks, ops, store, body, http, env, vsmod, pinecone, df, local>>
priceVars == <<value, currency, result>>
ctxVars == <<ctx>>
chatVars == <<history, api_key, gen, ret>>
dbVars == <<client, tasks, ops>>
routeVars == <<store, body, http>>
importVars == <<env, vsmod>>
scriptVars == <<pinecone, df, local>>

(***************************************************************************)
(* Bounds                                                                  *)
(***************************************************************************)
MaxStrLen == 4
MaxInt == 120
MaxWords == 2
MaxHits == 4
MaxTurns == 2

(***************************************************************************)
(* Characters and Python str methods                                       *)
(***************************************************************************)
UP == <<"A","B","C","D","E","F","G","H","I","J","K","L","M",
        "N","O","P","Q","R","S","T","U","V","W","X","Y","Z">>
LO == <<"a","b","c","d","e","f","g","h","i","j","k","l","m",
        "n","o","p","q","r","s","t","u","v","w","x","y","z">>
DIGITS == <<"0","1","2","3","4","5","6","7","8","9">>

Upper == {UP[i] : i \in 1..26}
Lower == {LO[i] : i \in 1..26}
AsciiDigit == {DIGITS[i] : i \in 1..10}
\* Characters for which str.isdigit() is true: the ASCII digits and digits
\* such as superscript two (U+00B2, written here as one element "^2"), which
\* int() and float() reject.
SuperscriptTwo == "^2"
OtherDigit == {SuperscriptTwo}
\* The file separator U+001C, written here as one element "<FS>": str.isspace()
\* is true for it, so str.strip() removes it and the pattern \s matches it,
\* but int() and float() do not skip it around an ASCII numeral.
FileSeparator == "<FS>"
\* characters for which str.isspace() is true
Whitespace == {" ", "\t", "\n", FileSeparator}
\* characters that int() and float() skip around an ASCII numeral
ParseWhitespace == {" ", "\t", "\n"}

DigitVal(c) == (CHOOSE i \in 1..10 : DIGITS[i] = c) - 1
DigitChar(d) == DIGITS[d + 1]

RECURSIVE Str(_)
Str(s) ==
    IF s = <<>> THEN ""
    ELSE IF Len(s) = 1 THEN s[1]
    ELSE LET h == Len(s) \div 2
         IN  Str(SubSeq(s, 1, h)) \o Str(SubSeq(s, h + 1, Len(s)))

RECURSIVE lstrip(_)
lstrip(s) == IF s # <<>> /\ s[1] \in Whitespace THEN lstrip(Tail(s)) ELSE s

RECURSIVE rstrip(_)
rstrip(s) ==
    IF s # <<>> /\ s[Len(s)] \in Whitespace
    THEN rstrip(SubSeq(s, 1, Len(s) - 1)) ELSE s

\* str.strip()
strip(s) == rstrip(lstrip(s))

RECURSIVE lskip(_)
lskip(s) == IF s # <<>> /\ s[1] \in ParseWhitespace THEN lskip(Tail(s)) ELSE s

RECURSIVE rskip(_)
rskip(s) ==
    IF s # <<>> /\ s[Len(s)] \in ParseWhitespace
    THEN rskip(SubSeq(s, 1, Len(s) - 1)) ELSE s

\* the part of s that int() and float() parse
skip_space(s) == rskip(lskip(s))

\* str.isdigit(): non-empty and every character is a digit
isdigit(s) == s # <<>> /\ \A i \in 1..Len(s) : s[i] \in AsciiDigit \cup OtherDigit

\* c in s, for a single character c
contains(s, c) == \E i \in 1..Len(s) : s[i] = c

\* s.replace(c, "", 1): drop the first occurrence of the character c
replace_first(s, c) ==
    IF contains(s, c)
    THEN LET i == CHOOSE k \in 1..Len(s) : s[k] = c /\ \A j \in 1..(k-1) : s[j] # c
         IN  SubSeq(s, 1, i - 1) \o SubSeq(s, i + 1, Len(s))
    ELSE s

(***************************************************************************)
(* Python values.  A float is the decimal m / 10^e with trailing zeros     *)
(* removed (12.5 is m = 125, e = 1).                                       *)
(***************************************************************************)
PyNone == [t |-> "NoneType"]
PyStr(s) == [t |-> "str", s |-> s]
PyInt(n) == [t |-> "int", n |-> n]
PyOther(kind) == [t |-> kind]
\* the outcome of an evaluation that raised
Raised(exc) == [t |-> "raise", exc |-> exc]

RECURSIVE Pow10(_)
Pow10(k) == IF k = 0 THEN 1 ELSE 10 * Pow10(k - 1)

RECURSIVE PyFloat(_, _)
PyFloat(m, e) ==
    IF e > 0 /\ m % 10 = 0 THEN PyFloat(m \div 10, e - 1)
    ELSE [t |-> "float", m |-> m, e |-> e]

RECURSIVE DigitsToInt(_)
DigitsToInt(s) ==
    IF s = <<>> THEN 0 ELSE 10 * DigitsToInt(SubSeq(s, 1, Len(s) - 1)) + DigitVal(s[Len(s)])

\* int(s) for a string: the surrounding whitespace that int() skips is
\* ignored, the rest must be ASCII decimal digits, otherwise ValueError
int_of_str(s) ==
    LET b == skip_space(s)
    IN  IF b # <<>> /\ \A i \in 1..Len(b) : b[i] \in AsciiDigit
        THEN PyInt(DigitsToInt(b))
        ELSE Raised("ValueError")

\* the point dropped instead of placed
float_of_str_nopoint(s) ==
    LET d == replace_first(skip_space(s), ".")
    IN  IF d # <<>> /\ \A i \in 1..Len(d) : d[i] \in AsciiDigit
        THEN PyFloat(DigitsToInt(d), 0)
        ELSE Raised("ValueError")

\* float(s) for a string: the surrounding whitespace that float() skips is
\* ignored, the rest must be ASCII digits with one optional point and at
\* least one digit
float_of_str(s) ==
    LET b == skip_space(s)
        d == replace_first(b, ".")
    IN  IF d # <<>> /\ \A i \in 1..Len(d) : d[i] \in AsciiDigit
        THEN LET p == IF contains(b, ".")
                      THEN CHOOSE k \in 1..Len(b) : b[k] = "."
                      ELSE Len(b) + 1
             IN  PyFloat(DigitsToInt(d), IF p > Len(b) THEN 0 ELSE Len(b) - p)
        ELSE Raised("ValueError")

\* the value taken as it is, not divided
div100_unscaled(n) == PyFloat(n, 0)

\* value / 100.0 for an int
div100(n) == PyFloat(n, 2)

(***************************************************************************)
(* The format specification ",.2f"                                         *)
(***************************************************************************)
RECURSIVE NatDigits(_)
NatDigits(n) ==
    IF n < 10 THEN <<DigitChar(n)>> ELSE NatDigits(n \div 10) \o <<DigitChar(n % 10)>>

\* decimal digits of n with a comma before every group of three
RECURSIVE Grouped(_)
Grouped(n) ==
    IF n < 1000 THEN NatDigits(n)
    ELSE Grouped(n \div 1000) \o <<",">>
         \o <<DigitChar((n \div 100) % 10), DigitChar((n \div 10) % 10), DigitChar(n % 10)>>

\* the number of hundredths nearest to |m| / 10^e; a tie goes to the even
\* neighbour (the modelled floats are exactly representable when they tie)
RoundCents(m, e) ==
    LET a == IF m < 0 THEN 0 - m ELSE m
    IN  IF e <= 2 THEN a * Pow10(2 - e)
        ELSE LET q == a \div Pow10(e - 2)
                 r == a % Pow10(e - 2)
                 h == 5 * Pow10(e - 3)
             IN  IF r < h THEN q
                 ELSE IF r > h THEN q + 1
                 ELSE IF q % 2 = 0 THEN q ELSE q + 1

\* f"{x:,.2f}" for the float x = m / 10^e
fmt_comma_2f(x) ==
    LET c == RoundCents(x.m, x.e)
    IN  (IF x.m < 0 THEN <<"-">> ELSE <<>>)
        \o Grouped(c \div 100) \o <<".">>
        \o <<DigitChar((c \div 10) % 10), DigitChar(c % 10)>>

(***************************************************************************)
(* backend/services/price.py                                               *)
(***************************************************************************)
\* the body of the try block of format_price
format_price_try(v, cur) ==
    LET parsed ==
            IF v.t = "str"
            THEN IF isdigit(replace_first(strip(v.s), "."))
                 THEN IF contains(v.s, ".") THEN float_of_str(v.s) ELSE int_of_str(v.s)
                 ELSE [t |-> "return"]
            ELSE v
    IN  IF parsed.t = "return" THEN PyNone
        ELSE IF parsed.t = "raise" THEN parsed
        ELSE IF parsed.t = "int" THEN PyStr(cur \o fmt_comma_2f(div100(parsed.n)))
        ELSE IF parsed.t = "float" THEN PyStr(cur \o fmt_comma_2f(parsed))
        ELSE PyNone

\* without the except clause
format_price_noexcept(v, cur) ==
    IF v.t = "NoneType" THEN PyNone ELSE format_price_try(v, cur)

format_price(v, cur) ==
    IF v.t = "NoneType" THEN PyNone
    ELSE LET r == format_price_try(v, cur)
         IN  IF r.t = "raise" THEN PyNone ELSE r

(***************************************************************************)
(* backend/services/gemini_chain.py: price helpers                         *)
(***************************************************************************)
\* the body of the try block of _format_price
_format_price_try(v, cur) ==
    LET s == strip(v.s)
        parsed ==
            IF v.t = "str"
            THEN IF isdigit(replace_first(s, "."))
                 THEN IF contains(s, ".") THEN float_of_str(s) ELSE int_of_str(s)
                 ELSE [t |-> "return"]
            ELSE v
    IN  IF parsed.t = "return" THEN PyNone
        ELSE IF parsed.t = "raise" THEN parsed
        ELSE IF parsed.t = "int" THEN PyStr(cur \o fmt_comma_2f(div100(parsed.n)))
        ELSE IF parsed.t = "float" THEN PyStr(cur \o fmt_comma_2f(parsed))
        ELSE PyNone

_format_price(v, cur) ==
    IF v.t = "NoneType" THEN PyNone
    ELSE LET r == _format_price_try(v, cur)
         IN  IF r.t = "raise" THEN PyNone ELSE r

(***************************************************************************)
(* embedding/sync_pinecone.py: price normalization                         *)
(***************************************************************************)
\* the body of the try block of sync_pinecone._format_price
sync_pinecone_format_price_try(v, cur) ==
    LET s == strip(v.s)
        parsed ==
            IF v.t = "str"
            THEN IF isdigit(replace_first(s, "."))
                 THEN IF contains(s, ".") THEN float_of_str(s) ELSE int_of_str(s)
                 ELSE [t |-> "return"]
            ELSE v
        dollars == div100(parsed.n)
    IN  IF parsed.t = "return" THEN PyNone
        ELSE IF parsed.t = "raise" THEN parsed
        ELSE IF parsed.t = "int" THEN PyStr(cur \o fmt_comma_2f(dollars))
        ELSE IF parsed.t = "float" THEN PyStr(cur \o fmt_comma_2f(parsed))
        ELSE PyNone

\* sync_pinecone._format_price
sync_pinecone_format_price(v, cur) ==
    IF v.t = "NoneType" THEN PyNone
    ELSE LET r == sync_pinecone_format_price_try(v, cur)
         IN  IF r.t = "raise" THEN PyNone ELSE r

\* only None counts as false
Truthy_notnone(v) == v.t # "NoneType"

\* truth value of a Python value
Truthy(v) ==
    CASE v.t = "NoneType" -> FALSE
      [] v.t = "str" -> v.s # <<>>
      [] v.t = "int" -> v.n # 0
      [] v.t = "float" -> v.m # 0
      [] OTHER -> TRUE

\* a or b
Or(a, b) == IF Truthy(a) THEN a ELSE b

\* md.get(k)
get(md, k) == IF k \in DOMAIN md THEN md[k] ELSE PyNone

NA == <<"N", "/", "A">>

\* str(v) for the values a price_display can hold
str(v) ==
    CASE v.t = "str" -> v.s
      [] v.t = "int" -> (IF v.n < 0 THEN <<"-">> \o NatDigits(0 - v.n) ELSE NatDigits(v.n))
      [] OTHER -> <<"<", v.t, ">">>

\* the raw price passed on without _format_price
_price_from_md_raw(md) ==
    IF DOMAIN md = {} THEN NA
    ELSE IF Truthy(get(md, "price_display")) THEN str(md["price_display"])
    ELSE IF Truthy(get(md, "price")) THEN str(md["price"]) ELSE NA

_price_from_md(md) ==
    IF DOMAIN md = {} THEN NA
    ELSE IF Truthy(get(md, "price_display")) THEN str(md["price_display"])
    ELSE LET p == _format_price(get(md, "price"), <<"$">>)
         IN  IF Truthy(p) THEN p.s ELSE NA

(***************************************************************************)
(* gemini_chain.py: query helpers                                          *)
(***************************************************************************)
ToLowerChar(c) == IF c \in Upper THEN LO[CHOOSE i \in 1..26 : UP[i] = c] ELSE c
ToUpperChar(c) == IF c \in Lower THEN UP[CHOOSE i \in 1..26 : LO[i] = c] ELSE c

\* str.lower()
lower(s) == [i \in 1..Len(s) |-> ToLowerChar(s[i])]

\* str.title(): a letter is upper case after a non-letter, lower case otherwise
title(s) ==
    [i \in 1..Len(s) |->
        IF i = 1 \/ s[i-1] \notin (Upper \cup Lower)
        THEN ToUpperChar(s[i]) ELSE ToLowerChar(s[i])]

\* w in s, for strings
is_substring(w, s) ==
    \E i \in 1..(Len(s) - Len(w) + 1) : SubSeq(s, i, i + Len(w) - 1) = w

\* \w
IsWordChar(c) == c \in Upper \cup Lower \cup AsciiDigit \cup {"_"}

\* \b between positions e and e+1, where s[e] is a word character
BoundaryAfter(s, e) == e = Len(s) \/ ~IsWordChar(s[e + 1])
\* \b between positions i-1 and i, where s[i] is a word character
BoundaryBefore(s, i) == i = 1 \/ ~IsWordChar(s[i - 1])

\* last position of the longest run of characters of C starting at p
\* (p - 1 when s[p] is not in C)
RECURSIVE RunEnd(_, _, _)
RunEnd(s, p, C) == IF p <= Len(s) /\ s[p] \in C THEN RunEnd(s, p + 1, C) ELSE p - 1

\* [A-Z][a-z]+ at p: its last position, 0 when it does not match
CapWordEnd(s, p) ==
    IF p + 1 <= Len(s) /\ s[p] \in Upper /\ s[p + 1] \in Lower
    THEN RunEnd(s, p + 1, Lower) ELSE 0

\* (?:\s+[A-Z][a-z]+)*\b after a capitalized word ending at e: the last
\* position of the greedy match, 0 when there is none
RECURSIVE ExtendCaps(_, _)
ExtendCaps(s, e) ==
    LET w == RunEnd(s, e + 1, Whitespace)
        e2 == IF w > e THEN CapWordEnd(s, w + 1) ELSE 0
        r == IF e2 > 0 THEN ExtendCaps(s, e2) ELSE 0
    IN  IF r > 0 THEN r ELSE IF BoundaryAfter(s, e) THEN e ELSE 0

\* re.findall(r"\b([A-Z][a-z]+(?:\s+[A-Z][a-z]+)*)\b", s), scanning from i
RECURSIVE FindCaps(_, _)
FindCaps(s, i) ==
    IF i > Len(s) THEN <<>>
    ELSE LET e0 == IF BoundaryBefore(s, i) THEN CapWordEnd(s, i) ELSE 0
             e == IF e0 > 0 THEN ExtendCaps(s, e0) ELSE 0
         IN  IF e > 0 THEN <<SubSeq(s, i, e)>> \o FindCaps(s, e + 1)
             ELSE FindCaps(s, i + 1)

\* the last candidate of maximal length
MaxByLen_last(c) ==
    c[CHOOSE i \in 1..Len(c) :
        /\ \A j \in 1..Len(c) : Len(c[j]) <= Len(c[i])
        /\ \A j \in (i + 1)..Len(c) : Len(c[j]) < Len(c[i])]

\* max(candidates, key=len): the first candidate of maximal length
MaxByLen(c) ==
    c[CHOOSE i \in 1..Len(c) :
        /\ \A j \in 1..Len(c) : Len(c[j]) <= Len(c[i])
        /\ \A j \in 1..(i - 1) : Len(c[j]) < Len(c[i])]

KNOWN_BRANDS ==
    << <<"n","i","k","e">>, <<"v","a","n","s">>, <<"a","d","i","d","a","s">>,
       <<"c","o","n","v","e","r","s","e">>,
       <<"n","e","w"," ","b","a","l","a","n","c","e">>,
       <<"o","n"," ","r","u","n","n","i","n","g">> >>

\* the brand hint as a Python value: a str or None
_extract_brand_hint(text) ==
    LET candidates == FindCaps(text, 1)
    IN  IF candidates = <<>>
        THEN IF \E k \in 1..Len(KNOWN_BRANDS) : is_substring(KNOWN_BRANDS[k], lower(text))
             THEN LET k == CHOOSE i \in 1..Len(KNOWN_BRANDS) :
                              /\ is_substring(KNOWN_BRANDS[i], lower(text))
                              /\ \A j \in 1..(i - 1) : ~is_substring(KNOWN_BRANDS[j], lower(text))
                  IN  PyStr(title(KNOWN_BRANDS[k]))
             ELSE PyNone
        ELSE PyStr(MaxByLen(candidates))

LISTY_WORDS ==
    { <<"a","l","l">>, <<"l","i","s","t">>, <<"o","t","h","e","r">>,
      <<"o","t","h","e","r","s">>, <<"m","o","r","e">>,
      <<"e","v","e","r","y","t","h","i","n","g">> }

\* the pattern without the \b anchors
_LISTY_substring(text) ==
    \E w \in LISTY_WORDS : is_substring(w, lower(text))

\* bool(_LISTY.search(text))
_LISTY(text) ==
    \E w \in LISTY_WORDS : \E i \in 1..(Len(text) - Len(w) + 1) :
        /\ lower(SubSeq(text, i, i + Len(w) - 1)) = w
        /\ BoundaryBefore(text, i)
        /\ BoundaryAfter(text, i + Len(w) - 1)

(***************************************************************************)
(* gemini_chain.py: context building.  A hit is a record with a            *)
(* page_content string and a metadata value (a dict, modelled as a         *)
(* function from its keys, or None).                                       *)
(***************************************************************************)
EmptyDict == [k \in {} |-> PyNone]

_hit_to_row(hit) ==
    LET md == IF hit.metadata = PyNone \/ DOMAIN hit.metadata = {}
              THEN EmptyDict ELSE hit.metadata
    IN  [name |-> Or(Or(get(md, "name"), get(md, "ProductName")), PyStr(NA)).s,
         brand |-> Or(Or(get(md, "brand"), get(md, "ProductBrand")), PyStr(NA)).s,
         gender |-> Or(Or(get(md, "gender"), get(md, "Gender")), PyStr(NA)).s,
         color |-> Or(Or(get(md, "primaryColor"), get(md, "PrimaryColor")), PyStr(NA)).s,
         price |-> _price_from_md(md),
         description |-> Or(Or(PyStr(hit.page_content), get(md, "description")), PyStr(<<>>)).s]

\* the comparison without lower()
RECURSIVE FilterBrand_cs(_, _)
FilterBrand_cs(rows, hint) ==
    IF rows = <<>> THEN <<>>
    ELSE (IF rows[1].brand = hint THEN <<rows[1]>> ELSE <<>>)
         \o FilterBrand_cs(Tail(rows), hint)

\* [r for r in rows if r["brand"].lower() == hint.lower()]
RECURSIVE FilterBrand(_, _)
FilterBrand(rows, hint) ==
    IF rows = <<>> THEN <<>>
    ELSE (IF lower(rows[1].brand) = lower(hint) THEN <<rows[1]>> ELSE <<>>)
         \o FilterBrand(Tail(rows), hint)

RowKey(r) == <<lower(r.brand), lower(r.name)>>

\* the key without lower()
RECURSIVE Dedupe_cs(_, _)
Dedupe_cs(rows, seen) ==
    IF rows = <<>> THEN <<>>
    ELSE IF <<rows[1].brand, rows[1].name>> \in seen THEN Dedupe_cs(Tail(rows), seen)
    ELSE <<rows[1]>> \o Dedupe_cs(Tail(rows), seen \cup {<<rows[1].brand, rows[1].name>>})

\* every row kept
Dedupe_off(rows, seen) == rows

\* the dedupe loop: seen is the set of keys of the rows already kept
RECURSIVE Dedupe(_, _)
Dedupe(rows, seen) ==
    IF rows = <<>> THEN <<>>
    ELSE IF RowKey(rows[1]) \in seen THEN Dedupe(Tail(rows), seen)
    ELSE <<rows[1]>> \o Dedupe(Tail(rows), seen \cup {RowKey(rows[1])})

Min(a, b) == IF a <= b THEN a ELSE b

\* an assignment x = v followed by the statements F(x): v is evaluated once
With(v, F(_)) == CHOOSE r \in {F(x) : x \in {v}} : TRUE

\* "\n".join(lines)
RECURSIVE JoinLines(_)
JoinLines(lines) ==
    IF lines = <<>> THEN <<>>
    ELSE IF Len(lines) = 1 THEN lines[1]
    ELSE lines[1] \o <<"\n">> \o JoinLines(Tail(lines))

ItemLine(r) ==
    <<"- ">> \o r.brand \o <<" ">> \o r.name \o <<" (">> \o r.color \o <<", ">>
    \o r.gender \o <<"), Price: ">> \o r.price \o <<"\n  ">> \o r.description

SummaryLine(r) ==
    r.brand \o <<" | ">> \o r.name \o <<" | ">> \o r.color \o <<" | ">>
    \o r.gender \o <<" | ">> \o r.price

NO_CONTEXT == <<"No relevant context found.">>

\* the filter kept even when it leaves no row
select_rows_nofallback(rows0, brand_hint) ==
    IF Truthy(brand_hint) THEN FilterBrand(rows0, brand_hint.s) ELSE rows0

\* if brand_hint: rows = [r for r in rows if ...] or rows
select_rows(rows0, brand_hint) ==
    IF Truthy(brand_hint)
    THEN With(FilterBrand(rows0, brand_hint.s), LAMBDA filtered :
              IF filtered # <<>> THEN filtered ELSE rows0)
    ELSE rows0

\* the summary block without its first row
render_lines_short(items) ==
    <<<<"Items:">>>>
    \o [i \in 1..Len(items) |-> ItemLine(items[i])]
    \o <<<<"\nSummary:">>>>
    \o [i \in 1..(Len(items) - 1) |-> SummaryLine(items[i + 1])]

\* lines, as built from items
render_lines(items) ==
    <<<<"Items:">>>>
    \o [i \in 1..Len(items) |-> ItemLine(items[i])]
    \o <<<<"\nSummary:">>>>
    \o [i \in 1..Len(items) |-> SummaryLine(items[i])]

\* The local variables of _get_context(query) at its return, after the search
\* returned the non-empty list hits (rows0 is rows as first assigned)
context_locals(q, hits) ==
    With([i \in 1..Len(hits) |-> _hit_to_row(hits[i])], LAMBDA rows0 :
    With(_extract_brand_hint(q), LAMBDA brand_hint :
    With(select_rows(rows0, brand_hint), LAMBDA rows :
    With(Dedupe(rows, {}), LAMBDA unique :
    With(_LISTY(q), LAMBDA want_all :
    With(SubSeq(unique, 1, IF want_all THEN Len(unique) ELSE Min(3, Len(unique))),
         LAMBDA items :
    With(render_lines(items), LAMBDA lines :
        [ret |-> JoinLines(lines), rows0 |-> rows0, rows |-> rows,
         brand_hint |-> brand_hint, want_all |-> want_all, unique |-> unique,
         items |-> items])))))))

EarlyReturn ==
    [ret |-> NO_CONTEXT, rows0 |-> <<>>, rows |-> <<>>, brand_hint |-> PyNone,
     want_all |-> FALSE, unique |-> <<>>, items |-> <<>>]

get_context_locals_noguard(q, found) ==
    IF found.raised THEN EarlyReturn ELSE context_locals(q, found.hits)

\* _get_context(query) with its locals, where found is the outcome of
\* vectorstore.similarity_search(query, k=10): it raised, or it returned the
\* list found.hits
get_context_locals(q, found) ==
    IF found.raised \/ found.hits = <<>>
    THEN EarlyReturn
    ELSE context_locals(q, found.hits)

_get_context(q, found) == get_context_locals(q, found).ret

(***************************************************************************)
(* gemini_chain.py: generate_response                                      *)
(***************************************************************************)
SYSTEM_MESSAGE ==
    <<"You are a helpful shop assistant. Answer only about the shop's product catalog. ",
      "When you list products, use the items given in Context. ",
      "If the question asks for 'all' or 'others', enumerate all items found in Context, ",
      "one per line. If you don't know, say: 'I can only help with product-related queries.' ",
      "Use the 'Price' exactly as shown in Context (do not invent or reformat).">>

\* the assistant's turn without its label
AssistantTurn_unlabelled(reply) == reply \o <<"">>

UserTurn(q) == <<"User: ">> \o q
AssistantTurn(reply) == <<"Assistant: ">> \o reply

\* the prompt sent to the model
build_prompt(q, hist, context) ==
    JoinLines(<<SYSTEM_MESSAGE, <<>>, <<"Conversation:">>>>
              \o hist
              \o <<UserTurn(q), <<>>, <<"Context:">>, context, <<>>, <<"Assistant:">>>>)

\* the generation call made a second time
CALLS_retry ==
    <<"configure", "GenerativeModel", "similarity_search", "generate_content",
      "generate_content">>

\* the external calls of a call that got past the configuration check
CALLS == <<"configure", "GenerativeModel", "similarity_search", "generate_content">>

\* history.append(...) on the caller's list instead of building a new one
generate_response_inplace(q, hist, key, found, answer) ==
    IF ~Truthy(key)
    THEN [raised |-> "RuntimeError", reply |-> <<>>, new_history |-> <<>>,
          history |-> hist, calls |-> <<>>,
          context |-> <<"unset">>, prompt |-> <<"unset">>]
    ELSE With(_get_context(q, found), LAMBDA context :
         With(build_prompt(q, hist, context), LAMBDA prompt :
             IF answer.raised
             THEN [raised |-> "UpstreamError", reply |-> <<>>, new_history |-> <<>>,
                   history |-> hist, calls |-> CALLS,
                   context |-> context, prompt |-> prompt]
             ELSE With(strip(Or(answer.text, PyStr(<<>>)).s), LAMBDA clean :
                  With(hist \o <<UserTurn(q), AssistantTurn(clean)>>, LAMBDA grown :
                      [raised |-> "none", reply |-> clean, new_history |-> grown,
                       history |-> grown, calls |-> CALLS,
                       context |-> context, prompt |-> prompt]))))

\* The outcome of generate_response(query, history).  key is the value of
\* os.getenv("GOOGLE_API_KEY"), found the outcome of the similarity search,
\* answer the outcome of model.generate_content(prompt): it raised, or it
\* returned a response whose .text is answer.text.
\*   raised       the exception that left the function, "none" on return
\*   reply, new_history   the returned pair
\*   history      the contents of the caller's list object after the call
\*   calls        the external calls made, in order
\*   context, prompt      the locals of these names ("unset" before they
\*                        are assigned)
generate_response(q, hist, key, found, answer) ==
    IF ~Truthy(key)
    THEN [raised |-> "RuntimeError", reply |-> <<>>, new_history |-> <<>>,
          history |-> hist, calls |-> <<>>,
          context |-> <<"unset">>, prompt |-> <<"unset">>]
    ELSE With(_get_context(q, found), LAMBDA context :
         With(build_prompt(q, hist, context), LAMBDA prompt :
             IF answer.raised
             THEN [raised |-> "UpstreamError", reply |-> <<>>, new_history |-> <<>>,
                   history |-> hist, calls |-> CALLS,
                   context |-> context, prompt |-> prompt]
             ELSE With(Or(answer.text, PyStr(<<>>)).s, LAMBDA resp_text :
                  With(strip(resp_text), LAMBDA clean :
                      [raised |-> "none", reply |-> clean,
                       new_history |-> hist \o <<UserTurn(q), AssistantTurn(clean)>>,
                       history |-> hist, calls |-> CALLS,
                       context |-> context, prompt |-> prompt]))))

(***************************************************************************)
(* Inputs of the price normalizer                                          *)
(***************************************************************************)
PriceChars == {"0", "1", "9", ".", " ", "a", SuperscriptTwo, FileSeparator}

RECURSIVE SeqsUpTo(_, _)
SeqsUpTo(S, n) ==
    IF n = 0 THEN {<<>>}
    ELSE LET P == SeqsUpTo(S, n - 1)
         IN  P \cup {Append(p, c) : p \in {q \in P : Len(q) = n - 1}, c \in S}

PriceStrings == SeqsUpTo(PriceChars, MaxStrLen)

IntInputs == (0 - 2 .. MaxInt) \cup {199, 200, 2500, 3999, 10999, 99999, 100000, 129900, 123456789}

FloatInputs ==
    {PyFloat(0, 0), PyFloat(5, 1), PyFloat(125, 1), PyFloat(99, 2), PyFloat(199, 0),
     PyFloat(100, 0), PyFloat(125, 3), PyFloat(375, 3), PyFloat(1, 3), PyFloat(9, 3),
     PyFloat(12345678, 1), PyFloat(19999, 4)}

PriceValues ==
    {PyNone} \cup {PyStr(s) : s \in PriceStrings} \cup {PyInt(n) : n \in IntInputs}
    \cup FloatInputs \cup {PyOther("dict"), PyOther("list"), PyOther("object")}

\* currency symbols; the last two stand for the euro and pound signs
Currencies == {<<"$">>, <<"EUR">>, <<"GBP">>}

(***************************************************************************)
(* Inputs of the context formatter                                         *)
(***************************************************************************)
W_Show == <<"S","h","o","w">>
W_all == <<"a","l","l">>
W_Nike == <<"N","i","k","e">>
W_nike == <<"n","i","k","e">>
W_Vans == <<"V","a","n","s">>
W_allbirds == <<"a","l","l","b","i","r","d","s">>

QueryWords == {W_Show, W_all, W_Nike, W_nike, W_Vans, W_allbirds}

\* " ".join(words)
RECURSIVE JoinWords(_)
JoinWords(ws) ==
    IF ws = <<>> THEN <<>>
    ELSE IF Len(ws) = 1 THEN ws[1]
    ELSE ws[1] \o <<" ">> \o JoinWords(Tail(ws))

Queries == {JoinWords(ws) : ws \in SeqsUpTo(QueryWords, MaxWords) \ {<<>>}}

\* words of the queries given to _extract_brand_hint alone
HintWords ==
    {W_Nike, W_nike, <<"N","I","K","E">>, <<"N","e","w">>, <<"B","a","l","a","n","c","e">>,
     <<"n","e","w">>, <<"b","a","l","a","n","c","e">>, <<"I">>,
     <<"c","a","r","a","v","a","n","s">>, <<"V","a","n","s",",">>, <<"A","i","r","2">>,
     <<"\t">>}

HintQueries == {JoinWords(ws) : ws \in SeqsUpTo(HintWords, MaxWords) \ {<<>>}}

H1 == [page_content |-> <<"R","u","n">>,
       metadata |-> [brand |-> PyStr(W_Nike), name |-> PyStr(<<"A","i","r">>),
                     primaryColor |-> PyStr(<<"R","e","d">>),
                     gender |-> PyStr(<<"M","e","n">>),
                     price |-> PyInt(5499),
                     price_display |-> PyStr(<<"$","5","4",".","9","9">>)]]
H2 == [page_content |-> <<>>,
       metadata |-> [ProductBrand |-> PyStr(W_nike), ProductName |-> PyStr(<<"A","I","R">>),
                     PrimaryColor |-> PyStr(<<"R","e","d">>),
                     Gender |-> PyStr(<<"M","e","n">>),
                     description |-> PyStr(<<"R","u","n">>),
                     price |-> PyInt(10999)]]
H3 == [page_content |-> <<"Z">>,
       metadata |-> [brand |-> PyStr(W_Nike), name |-> PyStr(<<"Z","o","o","m">>),
                     price |-> PyStr(<<" ","1","2",".","5">>),
                     price_display |-> PyStr(<<>>)]]
H4 == [page_content |-> <<"E">>,
       metadata |-> [brand |-> PyStr(W_Vans), name |-> PyStr(<<"E","r","a">>),
                     price |-> PyStr(<<"a","b","c">>),
                     price_display |-> PyNone]]
H5 == [page_content |-> <<"x">>, metadata |-> PyNone]

Hits == {H1, H2, H3, H4, H5}

\* the lists of at most n distinct hits
RECURSIVE HitLists(_)
HitLists(n) ==
    IF n = 0 THEN {<<>>}
    ELSE LET P == HitLists(n - 1)
             Full == {q \in P : Len(q) = n - 1}
         IN  P \cup UNION {{Append(p, h) : h \in Hits \ {p[i] : i \in 1..Len(p)}} : p \in Full}

SearchRaised == [raised |-> TRUE, hits |-> <<>>]
Searches == {SearchRaised} \cup {[raised |-> FALSE, hits |-> h] : h \in HitLists(MaxHits)}

NoCtx == [ret |-> <<"unset">>]

\* a Prisma client as constructed: not connected, nothing called
NewClient == [connected |-> FALSE, connect_calls |-> 0, disconnect_calls |-> 0]
NoStore == [raised |-> FALSE, rows |-> <<>>]
NoBody == [k \in {} |-> PyNone]
NoHttp == [status |-> 0]
NoEnv == [k \in {} |-> PyNone]
NoModule == [raised |-> "notimported"]

\* the parts of the state a specification does not use
NoDb == client = NewClient /\ tasks = <<>> /\ ops = <<>>
NoRoute == store = NoStore /\ body = NoBody /\ http = NoHttp
NoImport == env = NoEnv /\ vsmod = NoModule
NoPinecone == [listed |-> {}]
NoLocal == [at |-> "none"]
NoScript == pinecone = NoPinecone /\ df = <<>> /\ local = NoLocal
NoRet == [raised |-> "nocall"]
NoGen == [raised |-> FALSE, text |-> PyNone]

(***************************************************************************)
(* Specification of the price normalizer: format_price applied to one      *)
(* input                                                                   *)
(***************************************************************************)
InitPrice ==
    /\ NoScript
    /\ pc = "price_call"
    /\ value \in PriceValues
    /\ currency \in Currencies
    /\ result = PyNone
    /\ query = <<>> /\ search = SearchRaised /\ ctx = NoCtx
    /\ history = <<>> /\ api_key = PyNone /\ gen = NoGen /\ ret = NoRet
    /\ NoDb /\ NoRoute /\ NoImport

FormatPrice ==
    /\ pc = "price_call"
    /\ result' = format_price(value, currency)
    /\ pc' = "price_done"
    /\ UNCHANGED <<scriptVars, value, currency, query, search, ctxVars, chatVars, dbVars, routeVars, importVars>>

NextPrice == FormatPrice

SpecPrice == InitPrice /\ [][NextPrice]_vars

(***************************************************************************)
(* Specification of the context formatter: _get_context applied to one     *)
(* query and one outcome of the similarity search                          *)
(***************************************************************************)
InitContext ==
    /\ NoScript
    /\ pc = "ctx_call"
    /\ query \in Queries
    /\ search \in Searches
    /\ ctx = NoCtx
    /\ value = PyNone /\ currency = <<"$">> /\ result = PyNone
    /\ history = <<>> /\ api_key = PyNone /\ gen = NoGen /\ ret = NoRet
    /\ NoDb /\ NoRoute /\ NoImport

GetContext ==
    /\ pc = "ctx_call"
    /\ ctx' = get_context_locals(query, search)
    /\ pc' = "ctx_done"
    /\ UNCHANGED <<scriptVars, query, search, priceVars, chatVars, dbVars, routeVars, importVars>>

NextContext == GetContext

SpecContext == InitContext /\ [][NextContext]_vars

(***************************************************************************)
(* Specification of a conversation: a client calls generate_response with  *)
(* its history list, and may carry the returned history into the next call *)
(***************************************************************************)
ChatQueries == {JoinWords(<<W_all, W_Vans>>), W_Nike, JoinWords(<<W_Show, W_allbirds>>)}
ChatSearches ==
    {SearchRaised, [raised |-> FALSE, hits |-> <<>>],
     [raised |-> FALSE, hits |-> <<H1, H4>>],
     [raised |-> FALSE, hits |-> <<H4, H5, H2, H3>>]}
ApiKeys == {PyNone, PyStr(<<>>), PyStr(<<"k","e","y">>)}
GenOutcomes ==
    {[raised |-> TRUE, text |-> PyNone],
     [raised |-> FALSE, text |-> PyNone],
     [raised |-> FALSE, text |-> PyStr(<<>>)],
     [raised |-> FALSE, text |-> PyStr(<<" ","H","i","\n">>)],
     [raised |-> FALSE, text |-> PyStr(<<"O","k">>)]}

InitChat ==
    /\ NoScript
    /\ pc = "idle"
    /\ history = <<>>
    /\ query = <<>> /\ search = SearchRaised /\ api_key = PyNone /\ gen = NoGen
    /\ ret = NoRet
    /\ ctx = NoCtx
    /\ value = PyNone /\ currency = <<"$">> /\ result = PyNone
    /\ NoDb /\ NoRoute /\ NoImport

\* one call generate_response(q, history) by the client
GenerateResponse ==
    /\ pc = "idle"
    /\ \E q \in ChatQueries, k \in ApiKeys, s \in ChatSearches, g \in GenOutcomes :
        \E r \in {generate_response(q, history, k, s, g)} :
            /\ query' = q /\ api_key' = k /\ search' = s /\ gen' = g
            /\ ret' = r
            /\ history' = r.history
    /\ pc' = "returned"
    /\ UNCHANGED <<scriptVars, ctx, priceVars, dbVars, routeVars, importVars>>

\* between two calls the per-call values are forgotten
ForgetCall ==
    /\ query' = <<>> /\ search' = SearchRaised /\ api_key' = PyNone /\ gen' = NoGen
    /\ ret' = NoRet

\* the client continues the conversation with the returned history
Continue ==
    /\ pc = "returned"
    /\ ret.raised = "none"
    /\ Len(ret.new_history) < 2 * MaxTurns
    /\ history' = ret.new_history
    /\ pc' = "idle"
    /\ ForgetCall
    /\ UNCHANGED <<scriptVars, ctx, priceVars, dbVars, routeVars, importVars>>

\* the client drops the outcome and calls again with the list it has
Again ==
    /\ pc = "returned"
    /\ pc' = "idle"
    /\ ForgetCall
    /\ UNCHANGED <<scriptVars, history, ctx, priceVars, dbVars, routeVars, importVars>>

NextChat == GenerateResponse \/ Continue \/ Again

SpecChat == InitChat /\ [][NextChat]_vars

(***************************************************************************)
(* backend/routes/products.py: the products router.  A stored record is    *)
(* the outcome of its model_dump(): a dict, or an exception.               *)
(***************************************************************************)
MaxRows == 2
MaxOps == 6

\* the outcome of a call that raised exc with the description msg
Error(exc, msg) == [t |-> "raise", exc |-> exc, msg |-> msg]
PyDict(d) == [t |-> "dict", d |-> d]

\* the startup hook without the is_connected() guard
_connect_db_unguarded(cl, outcome) ==
    [client |-> [cl EXCEPT !.connect_calls = @ + 1,
                           !.connected = (outcome = "ok") \/ @],
     raised |-> outcome \notin {"ok", "AlreadyConnectedError"}]

\* _connect_db() on the client cl, where outcome is what prisma.connect()
\* does if it is called: the client after the hook and whether the hook raised
_connect_db(cl, outcome) ==
    IF ~cl.connected
    THEN [client |-> [cl EXCEPT !.connect_calls = @ + 1,
                                !.connected = (outcome = "ok")],
          raised |-> outcome \notin {"ok", "AlreadyConnectedError"}]
    ELSE [client |-> cl, raised |-> FALSE]

\* _disconnect_db() on the client cl
_disconnect_db(cl) ==
    IF cl.connected
    THEN [cl EXCEPT !.disconnect_calls = @ + 1, !.connected = FALSE]
    ELSE cl

\* the key left out when the price does not format
with_price_display_omit(d) ==
    IF format_price(get(d, "price"), <<"$">>) = PyNone THEN d
    ELSE [k \in DOMAIN d \cup {"price_display"} |->
            IF k = "price_display" THEN format_price(get(d, "price"), <<"$">>) ELSE d[k]]

\* d["price_display"] = format_price(d.get("price"))
with_price_display(d) ==
    [k \in DOMAIN d \cup {"price_display"} |->
        IF k = "price_display" THEN format_price(get(d, "price"), <<"$">>) ELSE d[k]]

\* a record that fails to dump is skipped
RECURSIVE decorate_skipbad(_, _)
decorate_skipbad(rows, out) ==
    IF rows = <<>> THEN [raised |-> FALSE, out |-> out]
    ELSE IF rows[1].dump.t = "raise" THEN decorate_skipbad(Tail(rows), out)
    ELSE decorate_skipbad(Tail(rows), Append(out, with_price_display(rows[1].dump.d)))

\* the for loop of get_products: the list built, or the exception that ended it
RECURSIVE decorate(_, _)
decorate(rows, out) ==
    IF rows = <<>> THEN [raised |-> FALSE, out |-> out]
    ELSE IF rows[1].dump.t = "raise" THEN [raised |-> TRUE, e |-> rows[1].dump]
    ELSE decorate(Tail(rows), Append(out, with_price_display(rows[1].dump.d)))

\* HTTPException(status_code=500, detail=f"DB error: {e}")
DbError(e) == [status |-> 500, detail |-> <<"DB error: ">> \o e.msg, fetches |-> 1]

\* get_products(), where found is the outcome of prisma.product.find_many():
\* the HTTP response, with the number of find_many() calls made
get_products(found) ==
    IF found.raised THEN DbError(found.e)
    ELSE With(decorate(found.rows, <<>>), LAMBDA r :
             IF r.raised THEN DbError(r.e)
             ELSE [status |-> 200, json |-> r.out, fetches |-> 1])

\* stored records
Rec(d) == [dump |-> PyDict(d)]
R1 == Rec([id |-> PyInt(1), price |-> PyInt(129900)])
R2 == Rec([id |-> PyInt(2), price |-> PyNone])
R3 == Rec([id |-> PyInt(3), name |-> PyStr(<<"V","a","n","s">>)])
R4 == Rec([id |-> PyInt(4), price |-> PyStr(<<"5","4","9","9">>)])
R5 == Rec([id |-> PyInt(5), price |-> PyStr(<<"a","b","c">>)])
R6 == [dump |-> Error("AttributeError", <<"no model_dump">>)]
Records == {R1, R2, R3, R4, R5, R6}

StoreOutcomes ==
    {[raised |-> TRUE, e |-> Error("RuntimeError", <<"kaboom">>)],
     [raised |-> TRUE, e |-> Error("ClientNotConnectedError", <<"not connected">>)]}
    \cup {[raised |-> FALSE, rows |-> r] : r \in SeqsUpTo(Records, MaxRows)}

ConnectOutcomes == {"ok", "AlreadyConnectedError", "EngineConnectionError"}

(***************************************************************************)
(* Specification of one serving lifecycle of the products router: startup, *)
(* requests to /products, shutdown                                         *)
(***************************************************************************)
InitProducts ==
    /\ NoScript
    /\ pc = "boot"
    /\ client \in {NewClient, [NewClient EXCEPT !.connected = TRUE]}
    /\ tasks = <<>> /\ ops = <<>>
    /\ NoRoute /\ NoImport
    /\ value = PyNone /\ currency = <<"$">> /\ result = PyNone
    /\ query = <<>> /\ search = SearchRaised /\ ctx = NoCtx
    /\ history = <<>> /\ api_key = PyNone /\ gen = NoGen /\ ret = NoRet

Startup ==
    /\ pc = "boot"
    /\ \E o \in ConnectOutcomes : \E r \in {_connect_db(client, o)} :
          /\ client' = r.client
          /\ pc' = IF r.raised THEN "failed" ELSE "serving"
    /\ ops' = Append(ops, "startup")
    /\ UNCHANGED <<scriptVars, tasks, routeVars, importVars, priceVars, query, search, ctxVars, chatVars>>

GetProducts ==
    /\ pc = "serving"
    /\ Len(ops) < MaxOps
    /\ \E f \in StoreOutcomes :
          /\ store' = f
          /\ http' = get_products(f)
    /\ ops' = Append(ops, "get_products")
    /\ UNCHANGED <<scriptVars, pc, client, tasks, body, importVars, priceVars, query, search,
                   ctxVars, chatVars>>

Shutdown ==
    /\ pc = "serving"
    /\ client' = _disconnect_db(client)
    /\ pc' = "stopped"
    /\ ops' = Append(ops, "shutdown")
    /\ UNCHANGED <<scriptVars, tasks, routeVars, importVars, priceVars, query, search, ctxVars, chatVars>>

NextProducts == Startup \/ GetProducts \/ Shutdown

SpecProducts == InitProducts /\ [][NextProducts]_vars

(***************************************************************************)
(* backend/db/db.py and backend/db/__init__.py: connect_db and             *)
(* disconnect_db on the shared client db, whose connect() and disconnect() *)
(* return                                                                  *)
(***************************************************************************)
\* connect_db() on the client cl
connect_db(cl) ==
    IF ~cl.connected
    THEN [cl EXCEPT !.connect_calls = @ + 1, !.connected = TRUE]
    ELSE cl

\* disconnect() called whatever is_connected() says
disconnect_db_unguarded(cl) ==
    [cl EXCEPT !.disconnect_calls = @ + 1, !.connected = FALSE]

\* disconnect_db() on the client cl
disconnect_db(cl) ==
    IF cl.connected
    THEN [cl EXCEPT !.disconnect_calls = @ + 1, !.connected = FALSE]
    ELSE cl

(***************************************************************************)
(* Specification of a caller awaiting connect_db and disconnect_db one     *)
(* after the other, in any order                                           *)
(***************************************************************************)
InitDb ==
    /\ NoScript
    /\ pc = "db"
    /\ client = NewClient /\ tasks = <<>> /\ ops = <<>>
    /\ NoRoute /\ NoImport
    /\ value = PyNone /\ currency = <<"$">> /\ result = PyNone
    /\ query = <<>> /\ search = SearchRaised /\ ctx = NoCtx
    /\ history = <<>> /\ api_key = PyNone /\ gen = NoGen /\ ret = NoRet

ConnectDb ==
    /\ pc = "db"
    /\ Len(ops) < MaxOps
    /\ client' = connect_db(client)
    /\ ops' = Append(ops, "connect_db")
    /\ UNCHANGED <<scriptVars, pc, tasks, routeVars, importVars, priceVars, query, search,
                   ctxVars, chatVars>>

DisconnectDb ==
    /\ pc = "db"
    /\ Len(ops) < MaxOps
    /\ client' = disconnect_db(client)
    /\ ops' = Append(ops, "disconnect_db")
    /\ UNCHANGED <<scriptVars, pc, tasks, routeVars, importVars, priceVars, query, search,
                   ctxVars, chatVars>>

NextDb == ConnectDb \/ DisconnectDb

SpecDb == InitDb /\ [][NextDb]_vars

(***************************************************************************)
(* Specification of concurrent coroutines on one event loop, each running  *)
(* connect_db or disconnect_db.  A coroutine runs without interruption up  *)
(* to the point where the awaited client call suspends; the client marks   *)
(* itself connected (disconnected) either before it suspends or when the   *)
(* call completes.  ops is the log of the client's connect and disconnect  *)
(* calls.                                                                  *)
(***************************************************************************)
MaxTasks == 3

TaskFns == {"connect_db", "disconnect_db"}

InitTasks ==
    /\ NoScript
    /\ pc = "loop"
    /\ client = NewClient
    /\ tasks \in [1..MaxTasks -> {[fn |-> f, at |-> "start"] : f \in TaskFns}]
    /\ ops = <<>>
    /\ NoRoute /\ NoImport
    /\ value = PyNone /\ currency = <<"$">> /\ result = PyNone
    /\ query = <<>> /\ search = SearchRaised /\ ctx = NoCtx
    /\ history = <<>> /\ api_key = PyNone /\ gen = NoGen /\ ret = NoRet

\* connect_db up to its await: is_connected() is read and connect() is called
BeginConnect(t) ==
    /\ tasks[t] = [fn |-> "connect_db", at |-> "start"]
    /\ IF ~client.connected
       THEN /\ \E early \in BOOLEAN :
                 client' = [client EXCEPT !.connect_calls = @ + 1, !.connected = early]
            /\ ops' = Append(ops, "connect")
            /\ tasks' = [tasks EXCEPT ![t].at = "awaiting"]
       ELSE /\ tasks' = [tasks EXCEPT ![t].at = "done"]
            /\ UNCHANGED <<client, ops>>
    /\ UNCHANGED <<scriptVars, pc, routeVars, importVars, priceVars, query, search, ctxVars, chatVars>>

\* the awaited connect() completes
EndConnect(t) ==
    /\ tasks[t] = [fn |-> "connect_db", at |-> "awaiting"]
    /\ client' = [client EXCEPT !.connected = TRUE]
    /\ tasks' = [tasks EXCEPT ![t].at = "done"]
    /\ UNCHANGED <<scriptVars, pc, ops, routeVars, importVars, priceVars, query, search,
                   ctxVars, chatVars>>

\* disconnect_db up to its await
BeginDisconnect(t) ==
    /\ tasks[t] = [fn |-> "disconnect_db", at |-> "start"]
    /\ IF client.connected
       THEN /\ \E early \in BOOLEAN :
                 client' = [client EXCEPT !.disconnect_calls = @ + 1,
                                          !.connected = ~early]
            /\ ops' = Append(ops, "disconnect")
            /\ tasks' = [tasks EXCEPT ![t].at = "awaiting"]
       ELSE /\ tasks' = [tasks EXCEPT ![t].at = "done"]
            /\ UNCHANGED <<client, ops>>
    /\ UNCHANGED <<scriptVars, pc, routeVars, importVars, priceVars, query, search, ctxVars, chatVars>>

\* the awaited disconnect() completes
EndDisconnect(t) ==
    /\ tasks[t] = [fn |-> "disconnect_db", at |-> "awaiting"]
    /\ client' = [client EXCEPT !.connected = FALSE]
    /\ tasks' = [tasks EXCEPT ![t].at = "done"]
    /\ UNCHANGED <<scriptVars, pc, ops, routeVars, importVars, priceVars, query, search,
                   ctxVars, chatVars>>

NextTasks ==
    \E t \in 1..MaxTasks :
        BeginConnect(t) \/ EndConnect(t) \/ BeginDisconnect(t) \/ EndDisconnect(t)

SpecTasks == InitTasks /\ [][NextTasks]_vars

(***************************************************************************)
(* backend/routes/chat.py: the chat route.  A request body is a JSON       *)
(* object, modelled as a function from the keys it has.                    *)
(***************************************************************************)
\* query declared with a default instead of required
ChatRequest_optional(b, dflt) ==
    [ok |-> TRUE, shared |-> FALSE,
     query |-> IF "query" \in DOMAIN b THEN b["query"] ELSE <<>>,
     history |-> IF "history" \in DOMAIN b THEN b["history"] ELSE dflt]

\* Validation of the body b against ChatRequest (query: str, required;
\* history: List[str] = []), where dflt is the contents of the default list:
\* the request object, or the validation errors.  The request gets its own
\* copy of the default (shared tells whether its history is the default list
\* object itself).
ChatRequest(b, dflt) ==
    IF "query" \notin DOMAIN b
    THEN [ok |-> FALSE, errors |-> <<[type |-> "missing", loc |-> <<"body", "query">>]>>]
    ELSE [ok |-> TRUE, shared |-> FALSE, query |-> b["query"],
          history |-> IF "history" \in DOMAIN b THEN b["history"] ELSE dflt]

\* the request's own history sent back in place of the returned one
chat_echo(b, dflt, key, found, answer) ==
    With(ChatRequest(b, dflt), LAMBDA request :
        IF ~request.ok
        THEN [status |-> 422, detail |-> request.errors, calls |-> <<>>, ret |-> NoRet,
              dflt |-> dflt]
        ELSE With(generate_response(request.query, request.history, key, found, answer),
                  LAMBDA r :
                 [status |-> IF r.raised = "none" THEN 200 ELSE 500,
                  json |-> [response |-> r.reply, history |-> request.history],
                  calls |-> <<[query |-> request.query, history |-> request.history]>>,
                  ret |-> r,
                  dflt |-> IF request.shared THEN r.history ELSE dflt]))

\* POST /chat with the body b: the HTTP response, the generate_response
\* calls made (with their arguments), the outcome of the call and the
\* contents of the default list afterwards.  An exception leaving
\* generate_response is answered with status 500.
chat(b, dflt, key, found, answer) ==
    With(ChatRequest(b, dflt), LAMBDA request :
        IF ~request.ok
        THEN [status |-> 422, detail |-> request.errors, calls |-> <<>>, ret |-> NoRet,
              dflt |-> dflt]
        ELSE With(generate_response(request.query, request.history, key, found, answer),
                  LAMBDA r :
                 [status |-> IF r.raised = "none" THEN 200 ELSE 500,
                  json |-> [response |-> r.reply, history |-> r.new_history],
                  calls |-> <<[query |-> request.query, history |-> request.history]>>,
                  ret |-> r,
                  dflt |-> IF request.shared THEN r.history ELSE dflt]))

RouteHistories ==
    {<<>>, <<UserTurn(<<"h","i">>)>>,
     <<UserTurn(W_Nike), AssistantTurn(<<"O","k">>)>>}
RouteQueries == {W_Nike, JoinWords(<<W_all, W_Vans>>), <<>>}

Bodies ==
    {[query |-> q] : q \in RouteQueries}
    \cup {[query |-> q, history |-> h] : q \in RouteQueries, h \in RouteHistories}
    \cup {[history |-> h] : h \in RouteHistories}
    \cup {NoBody}

RouteKeys == {PyNone, PyStr(<<"k","e","y">>)}
RouteSearches == {SearchRaised, [raised |-> FALSE, hits |-> <<H1, H4>>]}
RouteGens ==
    {[raised |-> TRUE, text |-> PyNone],
     [raised |-> FALSE, text |-> PyNone],
     [raised |-> FALSE, text |-> PyStr(<<" ","H","i","\n">>)]}

(***************************************************************************)
(* Specification of the chat route: requests answered one after the other. *)
(* history holds the contents of the default list of ChatRequest.history.  *)
(***************************************************************************)
InitRoute ==
    /\ NoScript
    /\ pc = "listening"
    /\ history = <<>>
    /\ body = NoBody /\ http = NoHttp /\ store = NoStore
    /\ query = <<>> /\ search = SearchRaised /\ api_key = PyNone /\ gen = NoGen
    /\ ret = NoRet
    /\ ctx = NoCtx
    /\ value = PyNone /\ currency = <<"$">> /\ result = PyNone
    /\ NoDb /\ NoImport

\* one POST /chat
Chat ==
    /\ pc = "listening"
    /\ \E b \in Bodies, k \in RouteKeys, s \in RouteSearches, g \in RouteGens :
        \E r \in {chat(b, history, k, s, g)} :
            /\ body' = b /\ api_key' = k /\ search' = s /\ gen' = g
            /\ http' = [x \in DOMAIN r \ {"ret", "dflt"} |-> r[x]]
            /\ ret' = r.ret
            /\ history' = r.dflt
    /\ pc' = "responded"
    /\ UNCHANGED <<scriptVars, query, store, ctx, priceVars, dbVars, importVars>>

\* the server waits for the next request
Listen ==
    /\ pc = "responded"
    /\ pc' = "listening"
    /\ body' = NoBody /\ http' = NoHttp
    /\ ForgetCall
    /\ UNCHANGED <<scriptVars, history, store, ctx, priceVars, dbVars, importVars>>

NextRoute == Chat \/ Listen

SpecRoute == InitRoute /\ [][NextRoute]_vars

(***************************************************************************)
(* backend/services/vector_store.py: module initialization.  The           *)
(* environment is a function from the names that are set to their values;  *)
(* has_genai tells whether langchain_google_genai can be imported.         *)
(***************************************************************************)
\* os.getenv(k, dflt)
getenv(e, k, dflt) == IF k \in DOMAIN e THEN e[k] ELSE dflt

S_vertex == <<"v","e","r","t","e","x">>
S_genai == <<"g","e","n","a","i">>
S_google == <<"g","o","o","g","l","e">>

\* the outcome of the embeddings branch: the exception raised, or the
\* constructor called
Built(calls) == [raised |-> "none", msg |-> <<>>, calls |-> calls]
Failed(exc, msg) == [raised |-> exc, msg |-> msg, calls |-> <<>>]

\* the credential checked before the package
genai_embeddings_keyfirst(e, has_genai) ==
    IF getenv(e, "GOOGLE_API_KEY", <<>>) = <<>>
    THEN Failed("RuntimeError", <<"GOOGLE_API_KEY is not set.">>)
    ELSE IF ~has_genai
    THEN Failed("RuntimeError", <<"langchain-google-genai not installed. pip install langchain-google-genai">>)
    ELSE Built(<<"GoogleGenerativeAIEmbeddings">>)

\* the branch for the providers "genai" and "google"
genai_embeddings(e, has_genai) ==
    IF ~has_genai
    THEN Failed("RuntimeError", <<"langchain-google-genai not installed. pip install langchain-google-genai">>)
    ELSE IF getenv(e, "GOOGLE_API_KEY", <<>>) = <<>>
    THEN Failed("RuntimeError", <<"GOOGLE_API_KEY is not set.">>)
    ELSE Built(<<"GoogleGenerativeAIEmbeddings">>)

\* the branch for the provider "vertex"
vertex_embeddings(e) ==
    IF getenv(e, "GOOGLE_CLOUD_PROJECT", <<>>) = <<>>
    THEN Failed("KeyError", <<"GOOGLE_CLOUD_PROJECT">>)
    ELSE Built(<<"VertexAIEmbeddings">>)

\* Importing vector_store.py in the environment e: the exception that ended
\* the import ("none" when it completed) and the objects constructed, in order
vector_store_import(e, has_genai) ==
    With(lower(getenv(e, "EMBEDDINGS_PROVIDER", S_vertex)), LAMBDA provider :
    With(IF provider = S_vertex THEN vertex_embeddings(e)
         ELSE IF provider \in {S_genai, S_google} THEN genai_embeddings(e, has_genai)
         ELSE Failed("ValueError", <<"Unsupported EMBEDDINGS_PROVIDER: ">> \o provider),
         LAMBDA embeddings :
        IF embeddings.raised # "none" THEN embeddings
        ELSE IF "PINECONE_API_KEY" \notin DOMAIN e
        THEN [raised |-> "KeyError", msg |-> <<"PINECONE_API_KEY">>,
              calls |-> embeddings.calls]
        ELSE Built(embeddings.calls \o <<"Pinecone", "from_existing_index">>)))

ProviderValues ==
    {S_vertex, <<"V","e","r","t","e","x">>, S_genai, S_google,
     <<"G","O","O","G","L","E">>, <<"o","p","e","n","a","i">>, <<>>}

\* marks a name that is not set
Unset == <<"<unset>">>

\* the environments: each name unset, or set to one of its values
EnvOf(p, proj, key, pine) ==
    [k \in {x \in {"EMBEDDINGS_PROVIDER", "GOOGLE_CLOUD_PROJECT", "GOOGLE_API_KEY",
                   "PINECONE_API_KEY"} :
              \/ x = "EMBEDDINGS_PROVIDER" /\ p # Unset
              \/ x = "GOOGLE_CLOUD_PROJECT" /\ proj # Unset
              \/ x = "GOOGLE_API_KEY" /\ key # Unset
              \/ x = "PINECONE_API_KEY" /\ pine # Unset} |->
        CASE k = "EMBEDDINGS_PROVIDER" -> p
          [] k = "GOOGLE_CLOUD_PROJECT" -> proj
          [] k = "GOOGLE_API_KEY" -> key
          [] k = "PINECONE_API_KEY" -> pine]

Environments ==
    {[vars |-> EnvOf(p, proj, key, pine), has_genai |-> g] :
        p \in ProviderValues \cup {Unset},
        proj \in {Unset, <<>>, <<"p","r","o","j">>},
        key \in {Unset, <<>>, <<"k","e","y">>},
        pine \in {Unset, <<"p","k">>},
        g \in BOOLEAN}

(***************************************************************************)
(* Specification of one import of vector_store.py                          *)
(***************************************************************************)
InitImport ==
    /\ NoScript
    /\ pc = "import"
    /\ env \in Environments
    /\ vsmod = NoModule
    /\ NoDb /\ NoRoute
    /\ value = PyNone /\ currency = <<"$">> /\ result = PyNone
    /\ query = <<>> /\ search = SearchRaised /\ ctx = NoCtx
    /\ history = <<>> /\ api_key = PyNone /\ gen = NoGen /\ ret = NoRet

ImportVectorStore ==
    /\ pc = "import"
    /\ vsmod' = vector_store_import(env.vars, env.has_genai)
    /\ pc' = "imported"
    /\ UNCHANGED <<scriptVars, env, dbVars, routeVars, priceVars, query, search, ctxVars, chatVars>>

NextImport == ImportVectorStore

SpecImport == InitImport /\ [][NextImport]_vars

(***************************************************************************)
(* Specification of the brand heuristic: _extract_brand_hint applied to    *)
(* one query                                                               *)
(***************************************************************************)
InitHint ==
    /\ NoScript
    /\ pc = "hint_call"
    /\ query \in HintQueries
    /\ result = PyNone
    /\ value = PyNone /\ currency = <<"$">>
    /\ search = SearchRaised /\ ctx = NoCtx
    /\ history = <<>> /\ api_key = PyNone /\ gen = NoGen /\ ret = NoRet
    /\ NoDb /\ NoRoute /\ NoImport

ExtractBrandHint ==
    /\ pc = "hint_call"
    /\ result' = _extract_brand_hint(query)
    /\ pc' = "hint_done"
    /\ UNCHANGED <<scriptVars, value, currency, query, search, ctxVars, chatVars, dbVars, routeVars, importVars>>

NextHint == ExtractBrandHint

SpecHint == InitHint /\ [][NextHint]_vars

(***************************************************************************)
(* embedding/sync_pinecone.py: ensure_pinecone_index.  The service keeps a *)
(* description (ready, dimension) of every index it lists.  The function   *)
(* sleeps between two polls, and the service may finish preparing the      *)
(* index meanwhile.                                                        *)
(***************************************************************************)
MaxPolls == 3

EMBEDDING_DIM == 768
PINECONE_INDEX == "ecommerce-ai-assistant"

IndexNames == {PINECONE_INDEX, "other-index"}
Dimensions == {512, EMBEDDING_DIM}
IndexDescriptions == [ready : BOOLEAN, dimension : Dimensions]

\* any(i["name"] == index_name for i in pc.list_indexes())
index_exists(service, index_name) == index_name \in DOMAIN service.indexes

\* the handle returned whatever the dimension
dimension_check_skipped(desc, dimension) == "handle"

\* the outcome after the loop: RuntimeError on a dimension mismatch, else the
\* handle pc.Index(index_name)
dimension_check(desc, dimension) ==
    IF desc.dimension # dimension THEN "RuntimeError" ELSE "handle"

InitIndex ==
    /\ pc = "ensure_call"
    /\ \E L \in SUBSET IndexNames :
          \E f \in [L -> IndexDescriptions] : pinecone = [indexes |-> f, upserts |-> <<>>]
    /\ \E d \in Dimensions :
          local = [index_name |-> PINECONE_INDEX, dimension |-> d, exists |-> FALSE,
                   polls |-> 0, outcome |-> "none"]
    /\ df = <<>>
    /\ NoDb /\ NoRoute /\ NoImport
    /\ value = PyNone /\ currency = <<"$">> /\ result = PyNone
    /\ query = <<>> /\ search = SearchRaised /\ ctx = NoCtx
    /\ history = <<>> /\ api_key = PyNone /\ gen = NoGen /\ ret = NoRet

\* ensure_pinecone_index up to its loop: the listing is read and the index is
\* created when it is not listed; the service gives the new index its
\* description
EnsureIndex ==
    /\ pc = "ensure_call"
    /\ \E exists \in {index_exists(pinecone, local.index_name)} :
          /\ local' = [local EXCEPT !.exists = exists]
          /\ IF ~exists
             THEN /\ \E desc \in IndexDescriptions :
                       pinecone' = [pinecone EXCEPT !.indexes =
                           [n \in DOMAIN @ \cup {local.index_name} |->
                               IF n = local.index_name THEN desc ELSE @[n]]]
                  /\ ops' = <<"list_indexes", "create_index">>
             ELSE /\ ops' = <<"list_indexes">>
                  /\ UNCHANGED pinecone
    /\ pc' = "ensure_poll"
    /\ UNCHANGED <<df, client, tasks, routeVars, importVars, priceVars, query, search,
                   ctxVars, chatVars>>

\* one round of the loop: describe_index reports not ready, the function sleeps
PollNotReady ==
    /\ pc = "ensure_poll"
    /\ ~pinecone.indexes[local.index_name].ready
    /\ local.polls < MaxPolls
    /\ ops' = Append(ops, "describe_index")
    /\ local' = [local EXCEPT !.polls = @ + 1]
    /\ UNCHANGED <<pc, pinecone, df, client, tasks, routeVars, importVars, priceVars,
                   query, search, ctxVars, chatVars>>

\* describe_index reports ready: the loop ends, the index is described again
\* and its dimension checked
PollReady ==
    /\ pc = "ensure_poll"
    /\ pinecone.indexes[local.index_name].ready
    /\ \E outcome \in {dimension_check(pinecone.indexes[local.index_name], local.dimension)} :
          /\ local' = [local EXCEPT !.outcome = outcome]
          /\ IF outcome = "handle"
             THEN /\ ops' = ops \o <<"describe_index", "describe_index", "Index">>
                  /\ pc' = "ensure_returned"
             ELSE /\ ops' = ops \o <<"describe_index", "describe_index">>
                  /\ pc' = "ensure_raised"
    /\ UNCHANGED <<pinecone, df, client, tasks, routeVars, importVars, priceVars,
                   query, search, ctxVars, chatVars>>

\* the service finishes preparing an index
BecomeReady ==
    /\ pc \in {"ensure_call", "ensure_poll"}
    /\ \E n \in DOMAIN pinecone.indexes :
          /\ ~pinecone.indexes[n].ready
          /\ pinecone' = [pinecone EXCEPT !.indexes[n].ready = TRUE]
    /\ UNCHANGED <<pc, local, df, dbVars, routeVars, importVars, priceVars,
                   query, search, ctxVars, chatVars>>

NextIndex == EnsureIndex \/ PollNotReady \/ PollReady \/ BecomeReady

SpecIndex == InitIndex /\ [][NextIndex]_vars

\* the function keeps running: a step it can take is taken
SpecIndexLive ==
    SpecIndex /\ WF_vars(EnsureIndex) /\ WF_vars(PollNotReady) /\ WF_vars(PollReady)

(***************************************************************************)
(* embedding/sync_pinecone.py: main.  A row of the data frame holds the    *)
(* model_dump() of a stored product; a vector is identified by the text it *)
(* embeds.                                                                 *)
(***************************************************************************)
MaxProducts == 3
MaxBatch == 3

\* the fields build_text joins, in its order
TEXT_FIELDS == <<"name", "brand", "gender", "primaryColor", "description", "price">>

\* the parts of the text: str(f).strip() for f in fields if f and str(f).strip()
RECURSIVE text_parts(_, _)
text_parts(row, k) ==
    IF k > Len(TEXT_FIELDS) THEN <<>>
    ELSE (IF Truthy(row[TEXT_FIELDS[k]]) /\ strip(str(row[TEXT_FIELDS[k]])) # <<>>
          THEN <<strip(str(row[TEXT_FIELDS[k]]))>> ELSE <<>>)
         \o text_parts(row, k + 1)

\* build_text(row)
build_text(row) == JoinWords(text_parts(row, 1))

\* embed.embed_documents(texts): one vector for each text, in the order of the
\* texts
embed_documents(texts) == [i \in 1..Len(texts) |-> <<"embedding of", texts[i]>>]

\* the metadata of a row
meta_of(row) ==
    [id |-> row.id, name |-> row.name, description |-> row.description,
     brand |-> row.brand, gender |-> row.gender, price |-> row.price,
     price_display |-> sync_pinecone_format_price(row.price, <<"$">>),
     primaryColor |-> row.primaryColor]

\* list(zip(ids, vectors, metas))
zip3(ids, vectors, metas) ==
    [i \in 1..Min(Len(ids), Min(Len(vectors), Len(metas))) |-> <<ids[i], vectors[i], metas[i]>>]

\* the end of the batch one short
batch_end_short(start, batch_size, n) == Min(n, start + batch_size) - 1

\* end = min(len(df), start + batch_size)
batch_end(start, batch_size, n) == Min(n, start + batch_size)

\* the payload upserted for the batch df.iloc[start:end]
batch_payload(rows, start, end) ==
    With(SubSeq(rows, start + 1, end), LAMBDA batch :
    With([i \in 1..Len(batch) |-> str(batch[i].id)], LAMBDA ids :
    With([i \in 1..Len(batch) |-> build_text(batch[i])], LAMBDA texts :
    With(embed_documents(texts), LAMBDA vectors :
    With([i \in 1..Len(batch) |-> meta_of(batch[i])], LAMBDA metas :
        zip3(ids, vectors, metas))))))

\* the stored product with the id i
Product(i) ==
    [id |-> PyInt(i),
     name |-> PyStr(<<"P">> \o NatDigits(i)),
     brand |-> IF i % 2 = 0 THEN PyNone ELSE PyStr(<<"A", " ">>),
     gender |-> IF i % 3 = 0 THEN PyStr(<<>>) ELSE PyStr(<<"M">>),
     price |-> IF i % 3 = 0 THEN PyNone
               ELSE IF i % 3 = 1 THEN PyStr(<<" ", "1", "0">>) ELSE PyInt(3999),
     description |-> IF i % 2 = 0 THEN PyStr(<<" ">>) ELSE PyStr(<<"D">>),
     primaryColor |-> PyStr(<<"R", "e", "d">>)]

\* what find_many() can return: stored products, each at most once, in any order
RECURSIVE Fetches(_)
Fetches(n) ==
    IF n = 0 THEN {<<>>}
    ELSE LET F == Fetches(n - 1)
         IN  F \cup {Append(f, Product(i)) : f \in {g \in F : Len(g) = n - 1}, i \in 1..MaxProducts}

ProductLists ==
    {f \in Fetches(MaxProducts) : \A i, j \in 1..Len(f) : i # j => f[i] # f[j]}

InitSync ==
    /\ pc = "main_call"
    /\ \E L \in SUBSET {PINECONE_INDEX} :
          \E f \in [L -> IndexDescriptions] : pinecone = [indexes |-> f, upserts |-> <<>>]
    /\ df \in ProductLists
    /\ \E key \in {PyNone, PyStr(<<"k">>)}, b \in 1..MaxBatch, up \in BOOLEAN :
          local = [pinecone_api_key |-> key, batch_size |-> b, preflight_ok |-> up,
                   start |-> 0, raised |-> "none",
                   index_name |-> PINECONE_INDEX, dimension |-> EMBEDDING_DIM,
                   exists |-> FALSE, polls |-> 0, outcome |-> "none"]
    /\ NoDb /\ NoRoute /\ NoImport
    /\ value = PyNone /\ currency = <<"$">> /\ result = PyNone
    /\ query = <<>> /\ search = SearchRaised /\ ctx = NoCtx
    /\ history = <<>> /\ api_key = PyNone /\ gen = NoGen /\ ret = NoRet

\* main up to the call of ensure_pinecone_index
MainStart ==
    /\ pc = "main_call"
    /\ IF ~Truthy(local.pinecone_api_key)
       THEN /\ local' = [local EXCEPT !.raised = "RuntimeError"]
            /\ pc' = "main_raised"
       ELSE /\ pc' = "ensure_call"
            /\ UNCHANGED local
    /\ UNCHANGED <<pinecone, df, dbVars, routeVars, importVars, priceVars, query, search,
                   ctxVars, chatVars>>

\* ensure_pinecone_index raised: main ends with its exception
MainIndexFailed ==
    /\ pc = "ensure_raised"
    /\ local' = [local EXCEPT !.raised = "RuntimeError"]
    /\ pc' = "main_raised"
    /\ UNCHANGED <<pinecone, df, dbVars, routeVars, importVars, priceVars, query, search,
                   ctxVars, chatVars>>

\* main after ensure_pinecone_index returned: the preflight embedding, the
\* fetch of the products, the return on an empty frame
MainFetch ==
    /\ pc = "ensure_returned"
    /\ IF ~local.preflight_ok
       THEN /\ local' = [local EXCEPT !.raised = "RuntimeError"]
            /\ ops' = Append(ops, "embed_documents")
            /\ pc' = "main_raised"
       ELSE /\ ops' = ops \o <<"embed_documents", "fetch_products_df">>
            /\ pc' = IF df = <<>> THEN "main_returned" ELSE "main_loop"
            /\ UNCHANGED local
    /\ UNCHANGED <<pinecone, df, client, tasks, routeVars, importVars, priceVars, query,
                   search, ctxVars, chatVars>>

\* one iteration of the loop over range(0, len(df), batch_size)
UpsertBatch ==
    /\ pc = "main_loop"
    /\ \E end \in {batch_end(local.start, local.batch_size, Len(df))} :
          pinecone' = [pinecone EXCEPT !.upserts =
                          Append(@, batch_payload(df, local.start, end))]
    /\ ops' = ops \o <<"embed_documents", "upsert">>
    /\ local' = [local EXCEPT !.start = @ + local.batch_size]
    /\ pc' = IF local.start + local.batch_size < Len(df) THEN "main_loop" ELSE "main_returned"
    /\ UNCHANGED <<df, client, tasks, routeVars, importVars, priceVars, query, search,
                   ctxVars, chatVars>>

NextSync ==
    \/ MainStart \/ EnsureIndex \/ PollNotReady \/ PollReady \/ BecomeReady
    \/ MainIndexFailed \/ MainFetch \/ UpsertBatch

SpecSync == InitSync /\ [][NextSync]_vars

(***************************************************************************)
(* load_data.py: load_csv_to_db.  A CSV row gives a cell for each column:  *)
(* a string, a number, or NaN when the cell is empty.                      *)
(***************************************************************************)
MaxCsvRows == 3

NaN == [t |-> "NaN"]

\* pd.notna(cell)
notna(cell) == cell.t \notin {"NaN", "NoneType"}

\* str(cell)
str_cell(cell) == IF cell.t = "NaN" THEN <<"n", "a", "n">> ELSE str(cell)

\* str(cell) if pd.notna(cell) else None
optional(cell) == IF notna(cell) THEN PyStr(str_cell(cell)) ELSE PyNone

\* the dict passed to db.product.create for a row
create_data(row) ==
    [name |-> PyStr(str_cell(row.ProductName)),
     brand |-> optional(row.ProductBrand),
     gender |-> optional(row.Gender),
     price |-> optional(row.Price),
     description |-> optional(row.Description),
     primaryColor |-> optional(row.PrimaryColor)]

CsvRow(name, brand, price) ==
    [ProductName |-> name, ProductBrand |-> brand, Gender |-> PyStr(<<"M">>),
     Price |-> price, Description |-> NaN, PrimaryColor |-> PyStr(<<"R", "e", "d">>)]

CsvRows ==
    {CsvRow(PyStr(<<"A", "i", "r">>), PyStr(W_Nike), PyInt(3999)),
     CsvRow(PyStr(<<"Z", "o", "o", "m">>), NaN, NaN),
     CsvRow(NaN, PyStr(W_Vans), PyStr(<<"1", "0">>))}

CsvFiles == SeqsUpTo(CsvRows, MaxCsvRows)

InitLoad ==
    /\ pc = "load_call"
    /\ df \in CsvFiles
    /\ client = NewClient /\ tasks = <<>> /\ ops = <<>>
    /\ local = [created |-> 0, raised |-> "none"]
    /\ pinecone = NoPinecone
    /\ NoRoute /\ NoImport
    /\ value = PyNone /\ currency = <<"$">> /\ result = PyNone
    /\ query = <<>> /\ search = SearchRaised /\ ctx = NoCtx
    /\ history = <<>> /\ api_key = PyNone /\ gen = NoGen /\ ret = NoRet

\* db = Prisma(); await db.connect(); df = pd.read_csv(...)
LoadConnect ==
    /\ pc = "load_call"
    /\ client' = [client EXCEPT !.connect_calls = @ + 1, !.connected = TRUE]
    /\ ops' = Append(ops, [op |-> "connect"])
    /\ pc' = "load_loop"
    /\ UNCHANGED <<local, df, pinecone, tasks, routeVars, importVars, priceVars, query,
                   search, ctxVars, chatVars>>

\* one iteration of the loop: await db.product.create({...}) returns, or
\* raises and ends the run
CreateRow ==
    /\ pc = "load_loop"
    /\ local.created < Len(df)
    /\ ops' = Append(ops, [op |-> "create", data |-> create_data(df[local.created + 1])])
    /\ \E raises \in BOOLEAN :
          IF raises
          THEN /\ local' = [local EXCEPT !.raised = "PrismaError"]
               /\ pc' = "load_raised"
          ELSE /\ local' = [local EXCEPT !.created = @ + 1]
               /\ pc' = "load_loop"
    /\ UNCHANGED <<df, pinecone, client, tasks, routeVars, importVars, priceVars, query,
                   search, ctxVars, chatVars>>

\* after the loop: print, await db.disconnect()
LoadFinish ==
    /\ pc = "load_loop"
    /\ local.created = Len(df)
    /\ client' = [client EXCEPT !.disconnect_calls = @ + 1, !.connected = FALSE]
    /\ ops' = Append(ops, [op |-> "disconnect"])
    /\ pc' = "load_returned"
    /\ UNCHANGED <<local, df, pinecone, tasks, routeVars, importVars, priceVars, query,
                   search, ctxVars, chatVars>>

NextLoad == LoadConnect \/ CreateRow \/ LoadFinish

SpecLoad == InitLoad /\ [][NextLoad]_vars

(***************************************************************************)
(* Properties of the price normalizer (checked under SpecPrice)            *)
(***************************************************************************)
\* the number written by the digits of s, other characters skipped
RECURSIVE ReadDigits(_, _)
ReadDigits(s, acc) ==
    IF s = <<>> THEN acc
    ELSE ReadDigits(Tail(s), IF s[1] \in AsciiDigit THEN 10 * acc + DigitVal(s[1]) ELSE acc)

\* b is an amount: digits in comma-separated groups of three without a
\* leading zero, a point, and exactly two digits
IsAmount(b) ==
    LET n == Len(b)
        ip == n - 3
    IN  /\ n >= 4
        /\ b[n - 2] = "." /\ b[n - 1] \in AsciiDigit /\ b[n] \in AsciiDigit
        /\ ip % 4 # 0
        /\ \A i \in 1..ip : IF (ip - i + 1) % 4 = 0 THEN b[i] = "," ELSE b[i] \in AsciiDigit
        /\ (b[1] = "0" => ip = 1)

Abs(x) == IF x < 0 THEN 0 - x ELSE x

\* r is the symbol cur followed by an amount of c hundredths
IsPriceOf(r, cur, c) ==
    /\ r.t = "str"
    /\ Len(r.s) > Len(cur)
    /\ SubSeq(r.s, 1, Len(cur)) = cur
    /\ IsAmount(SubSeq(r.s, Len(cur) + 1, Len(r.s)))
    /\ ReadDigits(SubSeq(r.s, Len(cur) + 1, Len(r.s)), 0) = c

\* the amount of r in hundredths
CentsOf(r, cur) == ReadDigits(SubSeq(r.s, Len(cur) + 1, Len(r.s)), 0)

\* C1: format_price chooses the unit from the type alone: an integer n >= 0
\* is rendered as the symbol followed by n/100 with thousands separators and
\* exactly two decimals, a float f >= 0 as the symbol followed by f itself
\* with two decimals; 199 gives "$1.99" and 199.0 gives "$199.00".
C1_UnitFromType ==
    pc = "price_done" =>
        /\ (value.t = "int" /\ value.n >= 0) => IsPriceOf(result, currency, value.n)
        /\ (value.t = "float" /\ value.m >= 0) =>
              /\ result.t = "str"
              /\ IsPriceOf(result, currency, CentsOf(result, currency))
              /\ 2 * Abs(CentsOf(result, currency) * Pow10(value.e) - 100 * value.m)
                    <= Pow10(value.e)
        /\ (value = PyInt(3999) /\ currency = <<"$">>) => Str(result.s) = "$39.99"
        /\ (value = PyInt(0) /\ currency = <<"$">>) => Str(result.s) = "$0.00"
        /\ (value = PyInt(2500) /\ currency = <<"GBP">>) => Str(result.s) = "GBP25.00"
        /\ (value = PyInt(199) /\ currency = <<"$">>) => Str(result.s) = "$1.99"
        /\ (value = PyFloat(199, 0) /\ currency = <<"$">>) => Str(result.s) = "$199.00"

C1_Witness ==
    /\ pc = "price_done"
    /\ value = PyInt(129900)
    /\ currency = <<"EUR">>
    /\ Str(result.s) = "EUR1,299.00"

\* b is a non-negative decimal numeral: digits with at most one point
IsDecimalNumeral(b) ==
    /\ \E i \in 1..Len(b) : b[i] \in AsciiDigit
    /\ \A i \in 1..Len(b) : b[i] \in AsciiDigit \cup {"."}
    /\ Cardinality({i \in 1..Len(b) : b[i] = "."}) <= 1

\* the number the numeral b denotes: an int without a point, a float with one
Denoted(b) ==
    IF \A i \in 1..Len(b) : b[i] # "."
    THEN PyInt(ReadDigits(b, 0))
    ELSE PyFloat(ReadDigits(b, 0), Len(b) - (CHOOSE i \in 1..Len(b) : b[i] = "."))

\* C2: for a string that after trimming is a non-negative decimal numeral,
\* format_price returns what it returns for the number the string denotes:
\* the integer when there is no decimal point, the float otherwise.
C2_NumericStrings ==
    (pc = "price_done" /\ value.t = "str" /\ IsDecimalNumeral(strip(value.s))) =>
        /\ result.t = "str"
        /\ result = format_price(Denoted(strip(value.s)), currency)

C2_Witness ==
    /\ pc = "price_done"
    /\ value = PyStr(<<" ", "1", ".", "9">>)
    /\ currency = <<"$">>
    /\ Str(result.s) = "$1.90"

\* C3: format_price never raises, and returns None for None, for every string
\* that is not a non-negative decimal numeral, and for every value that is
\* not a string, an integer or a float.
C3_TotalNoneOnBadInput ==
    pc = "price_done" =>
        /\ result.t \in {"str", "NoneType"}
        /\ (value.t \notin {"str", "int", "float"}) => result = PyNone
        /\ (value.t = "str" /\ ~IsDecimalNumeral(strip(value.s))) => result = PyNone

C3_Witness ==
    /\ pc = "price_done"
    /\ value = PyStr(<<SuperscriptTwo>>)
    /\ result = PyNone

\* C28: the three price formatters return the same result for every input
\* value, strings with surrounding whitespace included, and every currency
\* symbol.
C28_FormattersAgree ==
    pc = "price_done" =>
        /\ result = _format_price(value, currency)
        /\ result = sync_pinecone_format_price(value, currency)

(***************************************************************************)
(* Properties of generate_response (checked under SpecChat)                *)
(***************************************************************************)
\* r is t without its leading and trailing whitespace
IsTrimOf(r, t) ==
    /\ r # <<>> => (r[1] \notin Whitespace /\ r[Len(r)] \notin Whitespace)
    /\ \E i \in 0..Len(t) : \E j \in i..Len(t) :
          /\ SubSeq(t, i + 1, j) = r
          /\ \A k \in (1..i) \cup ((j + 1)..Len(t)) : t[k] \in Whitespace

\* C4: generate_response returns (reply, new_history): reply is the provider's
\* text trimmed (empty when the provider returns no text), new_history is the
\* input history followed by "User: {query}" and "Assistant: {reply}", and
\* the caller's history list is unchanged by the call.
C4_ReplyAndNewHistory ==
    [][(pc = "idle" /\ pc' = "returned" /\ ret'.raised = "none") =>
          LET n == Len(history)
              new == ret'.new_history
          IN  /\ IF gen'.text.t = "str"
                 THEN IsTrimOf(ret'.reply, gen'.text.s)
                 ELSE ret'.reply = <<>>
              /\ Len(new) = n + 2
              /\ SubSeq(new, 1, n) = history
              /\ Str(new[n + 1]) = "User: " \o Str(query')
              /\ Str(new[n + 2]) = "Assistant: " \o Str(ret'.reply)
              /\ history' = history]_vars

C4_Witness ==
    /\ pc = "returned"
    /\ ret.raised = "none"
    /\ Len(history) = 2
    /\ Len(ret.new_history) = 4
    /\ gen.text = PyStr(<<" ", "H", "i", "\n">>)
    /\ Str(ret.reply) = "Hi"

\* C5: when the similarity search or the generation call throws during a
\* chat request, generate_response still returns a valid response; only a
\* configuration error leaves it as an exception.
C5_UpstreamFailureAbsorbed ==
    pc = "returned" =>
        /\ (Truthy(api_key) /\ (search.raised \/ gen.raised)) => ret.raised = "none"
        /\ ret.raised # "none" => ~Truthy(api_key)

\* C6: if the similarity search raises or returns no hits, the context is
\* exactly "No relevant context found." and generate_response still builds
\* the prompt with that context and calls the generation model.
C6_NoContextFallback ==
    (pc = "returned" /\ Truthy(api_key) /\ (search.raised \/ search.hits = <<>>)) =>
        LET tail == <<"Context:", "\n">> \o ret.context \o <<"\n", "\n", "Assistant:">>
            n == Len(ret.prompt)
        IN  /\ Str(ret.context) = "No relevant context found."
            /\ n >= Len(tail)
            /\ SubSeq(ret.prompt, n - Len(tail) + 1, n) = tail
            /\ ret.calls[Len(ret.calls)] = "generate_content"
            /\ \E i \in 1..(Len(ret.calls) - 1) : ret.calls[i] = "similarity_search"

C6_Witness ==
    /\ pc = "returned"
    /\ search.raised
    /\ Truthy(api_key)
    /\ ret.raised = "none"
    /\ Str(ret.context) = "No relevant context found."

\* C11: on every call where GOOGLE_API_KEY is absent or empty,
\* generate_response fails with a configuration error before any similarity
\* search and before any generation call, and returns no reply or history.
C11_FailFastWithoutCredential ==
    [][(pc = "idle" /\ pc' = "returned" /\ (api_key' = PyNone \/ api_key' = PyStr(<<>>))) =>
          /\ ret'.raised = "RuntimeError"
          /\ \A i \in 1..Len(ret'.calls) :
                ret'.calls[i] \notin {"similarity_search", "generate_content"}
          /\ ret'.reply = <<>> /\ ret'.new_history = <<>>
          /\ history' = history]_vars

C11_Witness ==
    /\ pc = "returned"
    /\ api_key = PyStr(<<>>)
    /\ ~search.raised /\ Len(search.hits) = 2
    /\ ret.raised = "RuntimeError"
    /\ ret.calls = <<>>

\* the number of calls named c in the sequence of external calls
Count(calls, c) == Cardinality({i \in 1..Len(calls) : calls[i] = c})

\* C12: each successful generate_response call invokes the similarity search
\* exactly once and the generation exactly once, the search strictly before
\* the generation; no external call is made a second time after a failure.
C12_OneSearchOneGeneration ==
    pc = "returned" =>
        /\ ret.raised = "none" =>
              /\ Count(ret.calls, "similarity_search") = 1
              /\ Count(ret.calls, "generate_content") = 1
              /\ \E i, j \in 1..Len(ret.calls) :
                    /\ i < j
                    /\ ret.calls[i] = "similarity_search"
                    /\ ret.calls[j] = "generate_content"
        /\ Count(ret.calls, "similarity_search") <= 1
        /\ Count(ret.calls, "generate_content") <= 1

C12_Witness ==
    /\ pc = "returned"
    /\ ret.raised = "none"
    /\ search.raised
    /\ Len(history) = 2
    /\ Count(ret.calls, "generate_content") = 1

(***************************************************************************)
(* Properties of the context formatter (checked under SpecContext)         *)
(***************************************************************************)
\* the case-insensitive (brand, name) pair of a row
KeyOf(r) == <<lower(r.brand), lower(r.name)>>

\* the words of q, separated by whitespace
RECURSIVE SplitWords(_, _)
SplitWords(q, cur) ==
    IF q = <<>> THEN (IF cur = <<>> THEN <<>> ELSE <<cur>>)
    ELSE IF q[1] \in Whitespace
         THEN (IF cur = <<>> THEN <<>> ELSE <<cur>>) \o SplitWords(Tail(q), <<>>)
         ELSE SplitWords(Tail(q), Append(cur, q[1]))

WordsOf(q) == SplitWords(q, <<>>)

\* q contains a list-all word as a whole word, case-insensitively
HasListWord(q) ==
    \E i \in 1..Len(WordsOf(q)) : lower(WordsOf(q)[i]) \in LISTY_WORDS

\* the number of itemized entries in the rendered context
RenderedRows(text) == Cardinality({i \in 1..Len(text) : text[i] = "- "})
\* the number of summary lines in the rendered context
SummaryRows(text) == Cardinality({i \in 1..Len(text) : text[i] = " | "}) \div 4

Searched == pc = "ctx_done" /\ ~search.raised /\ search.hits # <<>>

\* the hits have the brands Nike, Nike and Vans
NikeNikeVans(hits) ==
    /\ Len(hits) = 3
    /\ Cardinality({i \in 1..3 : lower(_hit_to_row(hits[i]).brand) = W_nike}) = 2
    /\ Cardinality({i \in 1..3 : lower(_hit_to_row(hits[i]).brand) = lower(W_Vans)}) = 1

\* the two Nike hits have the same name
NikeNamesCoincide(hits) ==
    \E i, j \in 1..3 :
        /\ i < j
        /\ KeyOf(_hit_to_row(hits[i])) = KeyOf(_hit_to_row(hits[j]))

\* the context has only Nike rows: two, or one when the names coincide
OnlyNikeRows ==
    /\ \A i \in 1..Len(ctx.items) : lower(ctx.items[i].brand) = W_nike
    /\ ~is_substring(W_Vans, ctx.ret)
    /\ Len(ctx.items) = IF NikeNamesCoincide(search.hits) THEN 1 ELSE 2
    /\ RenderedRows(ctx.ret) = Len(ctx.items)

\* C7 as stated: with hits of brands Nike, Nike, Vans and any query
\* containing "Nike", the context includes only Nike rows and no Vans row.
C7_AnyQueryContainingNike ==
    (Searched /\ NikeNikeVans(search.hits) /\ is_substring(W_Nike, query)) => OnlyNikeRows

\* C7 amended: with hits of brands Nike, Nike, Vans and a query whose brand
\* hint is "Nike" (case-insensitively), the context includes only Nike rows
\* and no Vans row (two rows, or one when the two Nike names coincide).
C7_QueryWithNikeHint ==
    (Searched /\ NikeNikeVans(search.hits)
        /\ ctx.brand_hint.t = "str" /\ lower(ctx.brand_hint.s) = W_nike) => OnlyNikeRows

C7_Witness ==
    /\ Searched
    /\ query = JoinWords(<<W_Nike, W_allbirds>>)
    /\ search.hits = <<H2, H4, H3>>
    /\ Len(ctx.items) = 2
    /\ ctx.items[1].brand = W_nike

\* w starts with a capital letter
StartsUpper(w) == w # <<>> /\ w[1] \in Upper

\* the only capitalized word sequence of q is the single word B
OnlyCapitalized(q, B) ==
    /\ \E i \in 1..Len(WordsOf(q)) : WordsOf(q)[i] = B
    /\ Cardinality({i \in 1..Len(WordsOf(q)) : StartsUpper(WordsOf(q)[i])}) = 1

BrandNames == {W_Nike, W_Vans}

\* C8: when the query's only capitalized word sequence is a brand name B and
\* the query contains a list-all word, the brand hint is B, list-all is true,
\* and the context holds exactly the deduplicated hits of brand B (compared
\* case-insensitively): all of them and no row of another brand, provided at
\* least one hit has brand B.
C8_ListAllOfBrand ==
    \A B \in BrandNames :
        (/\ Searched
         /\ OnlyCapitalized(query, B)
         /\ HasListWord(query)
         /\ \E i \in 1..Len(search.hits) :
                lower(_hit_to_row(search.hits[i]).brand) = lower(B)) =>
            /\ ctx.brand_hint = PyStr(B)
            /\ ctx.want_all
            /\ \A i \in 1..Len(ctx.items) : lower(ctx.items[i].brand) = lower(B)
            /\ \A i \in 1..Len(search.hits) :
                  lower(_hit_to_row(search.hits[i]).brand) = lower(B) =>
                      \E j \in 1..Len(ctx.items) :
                          KeyOf(ctx.items[j]) = KeyOf(_hit_to_row(search.hits[i]))
            /\ \A i, j \in 1..Len(ctx.items) :
                  KeyOf(ctx.items[i]) = KeyOf(ctx.items[j]) => i = j
            /\ RenderedRows(ctx.ret) = Len(ctx.items)
            /\ SummaryRows(ctx.ret) = Len(ctx.items)

C8_Witness ==
    /\ Searched
    /\ query = JoinWords(<<W_all, W_Nike>>)
    /\ search.hits = <<H2, H4, H1, H3>>
    /\ ctx.want_all
    /\ Len(ctx.items) = 2
    /\ ctx.items[2].name = <<"Z", "o", "o", "m">>

\* C9: the number of rows rendered is min(3, u) when the query contains no
\* list-all word as a whole word and u when it contains one, where u is the
\* number of rows left after brand filtering and deduplication; the rows
\* kept are the first ones in retrieval order.
C9_RowCap ==
    Searched =>
        LET u == Len(ctx.unique)
            k == IF HasListWord(query) THEN u ELSE Min(3, u)
        IN  /\ RenderedRows(ctx.ret) = k
            /\ SummaryRows(ctx.ret) = k
            /\ ctx.items = SubSeq(ctx.unique, 1, k)

C9_Witness ==
    /\ Searched
    /\ query = W_allbirds
    /\ Len(ctx.unique) = 4
    /\ RenderedRows(ctx.ret) = 3

\* the metadata carries a precomputed display price
CarriesDisplay(md) ==
    /\ "price_display" \in DOMAIN md
    /\ md["price_display"].t = "str"
    /\ md["price_display"].s # <<>>

MetaOf(hit) == IF hit.metadata = PyNone THEN EmptyDict ELSE hit.metadata

\* the price the row of a hit is to show, by the Price Normalizer of price.py
ExpectedPrice(md) ==
    IF CarriesDisplay(md) THEN md["price_display"].s
    ELSE IF "price" \in DOMAIN md /\ format_price(md["price"], <<"$">>) # PyNone
         THEN format_price(md["price"], <<"$">>).s
         ELSE NA

\* C10: every context row's price is a display string, never a raw number:
\* the precomputed price_display when the metadata carries one, otherwise
\* the Price Normalizer's output for the raw price, otherwise "N/A".
C10_PriceIsDisplayString ==
    Searched =>
        /\ Len(ctx.rows0) = Len(search.hits)
        /\ \A i \in 1..Len(search.hits) :
              LET p == ctx.rows0[i].price
                  md == MetaOf(search.hits[i])
              IN  /\ p = ExpectedPrice(md)
                  /\ \/ p = NA
                     \/ CarriesDisplay(md) /\ p = md["price_display"].s
                     \/ Len(p) > 1 /\ p[1] = "$" /\ IsAmount(Tail(p))
        /\ \A j \in 1..Len(ctx.items) :
              \E i \in 1..Len(ctx.rows0) : ctx.items[j] = ctx.rows0[i]

C10_Witness ==
    /\ Searched
    /\ search.hits = <<H3, H2, H5, H1>>
    /\ Str(ctx.rows0[1].price) = "$12.50"
    /\ Str(ctx.rows0[2].price) = "$109.99"
    /\ Str(ctx.rows0[3].price) = "N/A"
    /\ Str(ctx.rows0[4].price) = "$54.99"

(***************************************************************************)
(* Properties of the products router (checked under SpecProducts)          *)
(***************************************************************************)
\* a request to /products has been answered
Served == http.status # 0

\* the fetch returned and every record dumped
FetchOk == ~store.raised /\ \A i \in 1..Len(store.rows) : store.rows[i].dump.t = "dict"

\* C13: on success the listing returns one object per store row, in store
\* order, each equal to the stored row plus a price_display key that is
\* always present: the normalized price string when the raw price is
\* normalizable ({id:1, price:129900} gives "$1,299.00"), an explicit null
\* when the price is missing, null or not normalizable.
C13_ListingDecorated ==
    (Served /\ FetchOk) =>
        /\ http.status = 200
        /\ Len(http.json) = Len(store.rows)
        /\ \A i \in 1..Len(store.rows) :
              LET d == store.rows[i].dump.d
                  o == http.json[i]
              IN  /\ DOMAIN o = DOMAIN d \cup {"price_display"}
                  /\ \A k \in DOMAIN d : o[k] = d[k]
                  /\ o["price_display"].t \in {"str", "NoneType"}
                  /\ IF "price" \notin DOMAIN d THEN o["price_display"] = PyNone
                     ELSE /\ d["price"] = PyNone => o["price_display"] = PyNone
                          /\ (d["price"].t = "int" /\ d["price"].n >= 0) =>
                                IsPriceOf(o["price_display"], <<"$">>, d["price"].n)
                          /\ d["price"] = PyInt(129900) =>
                                Str(o["price_display"].s) = "$1,299.00"
                          /\ d["price"] = PyStr(<<"5","4","9","9">>) =>
                                Str(o["price_display"].s) = "$54.99"
                          /\ d["price"] = PyStr(<<"a","b","c">>) =>
                                o["price_display"] = PyNone

C13_Witness ==
    /\ Served
    /\ store = [raised |-> FALSE, rows |-> <<R3, R1>>]
    /\ http.status = 200
    /\ http.json[1]["price_display"] = PyNone
    /\ http.json[1]["name"] = PyStr(<<"V","a","n","s">>)
    /\ Str(http.json[2]["price_display"].s) = "$1,299.00"

\* the first failure of the request: of the fetch, or of the first record
\* that does not dump
FirstFailure ==
    IF store.raised THEN store.e
    ELSE store.rows[CHOOSE i \in 1..Len(store.rows) :
                        /\ store.rows[i].dump.t = "raise"
                        /\ \A j \in 1..(i - 1) : store.rows[j].dump.t = "dict"].dump

\* C14: any failure while fetching or decorating the rows yields a single
\* HTTP 500 error whose detail is "DB error: " followed by the underlying
\* error's description; the response never contains a partial list of rows,
\* and the fetch is not retried.
C14_SingleDbError ==
    Served =>
        /\ http.fetches = 1
        /\ http.status \in {200, 500}
        /\ http.status = 500 <=> ~FetchOk
        /\ ~FetchOk =>
              /\ Str(http.detail) = "DB error: " \o Str(FirstFailure.msg)
              /\ DOMAIN http = {"status", "detail", "fetches"}

C14_Witness ==
    /\ Served
    /\ store = [raised |-> FALSE, rows |-> <<R1, R6>>]
    /\ http.status = 500
    /\ Str(http.detail) = "DB error: no model_dump"

\* C17: over one serving lifecycle of the products router, connect() is
\* called exactly once at startup if the client was not already connected and
\* not at all if it was, disconnect() is called exactly once at shutdown when
\* the client is connected, and no request handler connects or disconnects
\* the client.
C17_ConnectOncePerLifecycle ==
    [][/\ (pc = "boot" /\ pc' # "boot") =>
             /\ client'.connect_calls =
                    client.connect_calls + (IF client.connected THEN 0 ELSE 1)
             /\ client'.disconnect_calls = client.disconnect_calls
       /\ (pc = "serving" /\ pc' = "serving") =>
             /\ ops' = Append(ops, "get_products")
             /\ client' = client
       /\ (pc = "serving" /\ pc' = "stopped") =>
             /\ client'.disconnect_calls =
                    client.disconnect_calls + (IF client.connected THEN 1 ELSE 0)
             /\ client'.connect_calls = client.connect_calls
             /\ ~client'.connected
       /\ client'.connect_calls <= 1 /\ client'.disconnect_calls <= 1]_vars

C17_Witness ==
    /\ pc = "stopped"
    /\ Len(ops) = 4
    /\ http.status = 500
    /\ client = [connected |-> FALSE, connect_calls |-> 1, disconnect_calls |-> 1]

(***************************************************************************)
(* Properties of connect_db / disconnect_db (checked under SpecDb)         *)
(***************************************************************************)
\* C16: in every sequence of connect_db and disconnect_db calls awaited one
\* after the other on the shared client, starting disconnected, connect() is
\* called only when the client is not connected and disconnect() only when
\* it is; a repeated connect_db, a repeated disconnect_db and a disconnect_db
\* before any connect change nothing, and at every point the connect calls
\* minus the disconnect calls are 1 when connected and 0 when not.
C16_GuardedConnectDisconnect ==
    [][/\ client'.connect_calls \in {client.connect_calls, client.connect_calls + 1}
       /\ client'.disconnect_calls \in {client.disconnect_calls, client.disconnect_calls + 1}
       /\ client'.connect_calls > client.connect_calls =>
             ~client.connected /\ ops'[Len(ops')] = "connect_db"
       /\ client'.disconnect_calls > client.disconnect_calls =>
             client.connected /\ ops'[Len(ops')] = "disconnect_db"
       /\ (ops'[Len(ops')] = "connect_db" /\ client.connected) => client' = client
       /\ (ops'[Len(ops')] = "disconnect_db" /\ ~client.connected) => client' = client
       /\ ops'[Len(ops')] = "connect_db" => client'.connected
       /\ ops'[Len(ops')] = "disconnect_db" => ~client'.connected
       /\ client'.connect_calls - client'.disconnect_calls =
             (IF client'.connected THEN 1 ELSE 0)]_vars

C16_Witness ==
    /\ pc = "db"
    /\ ops = <<"disconnect_db", "connect_db", "connect_db", "disconnect_db", "disconnect_db">>
    /\ client = [connected |-> FALSE, connect_calls |-> 1, disconnect_calls |-> 1]

(***************************************************************************)
(* Properties of concurrent connection attempts (checked under SpecTasks)  *)
(***************************************************************************)
\* C15: under any interleaving of two or more concurrent attempts to
\* establish the connection (each checks is_connected and then awaits
\* connect), connect() is invoked at most once between disconnects.
C15_ConnectAtMostOnce ==
    \A i \in 1..(Len(ops) - 1) : ~(ops[i] = "connect" /\ ops[i + 1] = "connect")

(***************************************************************************)
(* Properties of the chat route (checked under SpecRoute)                  *)
(***************************************************************************)
\* C18: a chat request without the required query field is rejected with a
\* 422 validation error that identifies query as the offending field, and
\* generate_response is never invoked for it.
C18_MissingQueryRejected ==
    (pc = "responded" /\ "query" \notin DOMAIN body) =>
        /\ http.status = 422
        /\ \E i \in 1..Len(http.detail) :
              http.detail[i].loc[Len(http.detail[i].loc)] = "query"
        /\ http.calls = <<>>
        /\ ret = NoRet

C18_Witness ==
    /\ pc = "responded"
    /\ body = [history |-> <<UserTurn(<<"h","i">>)>>]
    /\ Truthy(api_key)
    /\ http.status = 422

\* C19: for every valid chat request the route calls generate_response
\* exactly once with the request's query and history, with an empty history
\* when the field is omitted, whatever earlier requests carried or returned,
\* and responds with exactly the pair it got back as {response, history}.
C19_RoutePassesThrough ==
    (pc = "responded" /\ "query" \in DOMAIN body) =>
        /\ Len(http.calls) = 1
        /\ http.calls[1].query = body["query"]
        /\ http.calls[1].history =
              (IF "history" \in DOMAIN body THEN body["history"] ELSE <<>>)
        /\ ret.raised = "none" =>
              /\ http.status = 200
              /\ http.json = [response |-> ret.reply, history |-> ret.new_history]
              /\ Len(http.json.history) = Len(http.calls[1].history) + 2
        /\ history = <<>>

C19_Witness ==
    /\ pc = "responded"
    /\ body = [query |-> W_Nike]
    /\ http.status = 200
    /\ Str(http.json.response) = "Hi"
    /\ Len(http.json.history) = 2

(***************************************************************************)
(* Properties of the vector-store initialization (checked under SpecImport)*)
(***************************************************************************)
\* the value of the name k is set and not empty
IsSet(k) == k \in DOMAIN env.vars /\ env.vars[k] # <<>>

\* the provider selected, in lower case ("vertex" when the name is unset)
Provider ==
    IF "EMBEDDINGS_PROVIDER" \in DOMAIN env.vars
    THEN Str(lower(env.vars["EMBEDDINGS_PROVIDER"])) ELSE "vertex"

\* the configuration is valid for the provider selected
ValidConfiguration ==
    /\ \/ Provider = "vertex" /\ IsSet("GOOGLE_CLOUD_PROJECT")
       \/ Provider \in {"genai", "google"} /\ env.has_genai /\ IsSet("GOOGLE_API_KEY")
    /\ "PINECONE_API_KEY" \in DOMAIN env.vars

\* C20: vector-store initialization fails fast on bad configuration and
\* builds nothing then: provider "vertex" without GOOGLE_CLOUD_PROJECT raises
\* KeyError, provider "genai" or "google" raises RuntimeError, first if the
\* package is missing and otherwise if GOOGLE_API_KEY is unset, any other
\* provider raises ValueError; in each failure neither the Pinecone client
\* nor the vector store is constructed, and on valid configuration the store
\* is built from the existing index exactly once.
C20_FailFastInitialization ==
    pc = "imported" =>
        /\ (Provider = "vertex" /\ ~IsSet("GOOGLE_CLOUD_PROJECT")) =>
              vsmod.raised = "KeyError" /\ Str(vsmod.msg) = "GOOGLE_CLOUD_PROJECT"
        /\ (Provider \in {"genai", "google"} /\ ~env.has_genai) =>
              /\ vsmod.raised = "RuntimeError"
              /\ Str(vsmod.msg) = "langchain-google-genai not installed. pip install langchain-google-genai"
        /\ (Provider \in {"genai", "google"} /\ env.has_genai /\ ~IsSet("GOOGLE_API_KEY")) =>
              /\ vsmod.raised = "RuntimeError"
              /\ Str(vsmod.msg) = "GOOGLE_API_KEY is not set."
        /\ Provider \notin {"vertex", "genai", "google"} => vsmod.raised = "ValueError"
        /\ vsmod.raised # "none" =>
              /\ Count(vsmod.calls, "Pinecone") = 0
              /\ Count(vsmod.calls, "from_existing_index") = 0
        /\ ValidConfiguration <=> vsmod.raised = "none"
        /\ ValidConfiguration =>
              /\ Count(vsmod.calls, "Pinecone") = 1
              /\ Count(vsmod.calls, "from_existing_index") = 1
              /\ vsmod.calls[Len(vsmod.calls)] = "from_existing_index"

C20_Witness ==
    /\ pc = "imported"
    /\ Provider = "google"
    /\ ~env.has_genai
    /\ ~IsSet("GOOGLE_API_KEY")
    /\ "PINECONE_API_KEY" \in DOMAIN env.vars
    /\ vsmod.raised = "RuntimeError"
    /\ vsmod.calls = <<>>

(***************************************************************************)
(* Properties of _extract_brand_hint (checked under SpecHint)              *)
(***************************************************************************)
\* q[i..e] is a sequence of capitalized words (a capital letter followed by
\* one or more small letters) separated by whitespace
IsCapSeq(q, i, e) ==
    /\ i <= e /\ q[i] \in Upper /\ q[e] \in Lower
    /\ \A k \in i..e :
        /\ q[k] \in Upper \cup Lower \cup Whitespace
        /\ q[k] \in Upper => ((k = i \/ q[k-1] \in Whitespace) /\ q[k+1] \in Lower)
        /\ q[k] \in Lower => q[k-1] \in Upper \cup Lower
        /\ q[k] \in Whitespace => (q[k-1] \in Lower \cup Whitespace /\ q[k+1] \in Upper \cup Whitespace)

\* q[i..e] is made of whole words
WholeWords(q, i, e) ==
    /\ i = 1 \/ ~IsWordChar(q[i-1])
    /\ e = Len(q) \/ ~IsWordChar(q[e+1])

CapSeqsIn(q) ==
    {c \in (1..Len(q)) \X (1..Len(q)) : IsCapSeq(q, c[1], c[2]) /\ WholeWords(q, c[1], c[2])}

\* the sequences of consecutive capitalized words of q: those not part of a
\* longer one
CapSeqs(q) ==
    {c \in CapSeqsIn(q) :
        \A d \in CapSeqsIn(q) : (d[1] <= c[1] /\ c[2] <= d[2]) => d = c}

\* the known brand names in the order of the fixed list, and as returned
BrandList == <<"nike", "vans", "adidas", "converse", "new balance", "on running">>
BrandTitles == <<"Nike", "Vans", "Adidas", "Converse", "New Balance", "On Running">>

\* the string w occurs in q, letter case ignored
Occurs(w, q) ==
    \E i \in 0..Len(q) :
        /\ i + Len(w) <= Len(q)
        /\ Str([j \in 1..Len(w) |-> ToLowerChar(q[i + j])]) = w

\* C24: the brand hint is the longest sequence of consecutive capitalized
\* words of the query (by character count, the first one on ties) when there
\* is one; when there is none it is the title-cased first entry of the fixed
\* list that occurs in the query case-insensitively; otherwise it is None.
\* The extraction never raises.
C24_BrandHint ==
    pc = "hint_done" =>
        /\ result.t \in {"str", "NoneType"}
        /\ CapSeqs(query) # {} =>
               \E c \in CapSeqs(query) :
                   /\ result = PyStr(SubSeq(query, c[1], c[2]))
                   /\ \A d \in CapSeqs(query) :
                          /\ d[2] - d[1] <= c[2] - c[1]
                          /\ d[2] - d[1] = c[2] - c[1] => c[1] <= d[1]
        /\ CapSeqs(query) = {} =>
               IF \E k \in 1..Len(BrandList) : Occurs(BrandList[k], query)
               THEN \E k \in 1..Len(BrandList) :
                       /\ Occurs(BrandList[k], query)
                       /\ \A j \in 1..(k - 1) : ~Occurs(BrandList[j], query)
                       /\ result.t = "str" /\ Str(result.s) = BrandTitles[k]
               ELSE result = PyNone

\* "Vans, Nike": two sequences of four characters, the first one is the hint
C24_Witness ==
    /\ pc = "hint_done"
    /\ Cardinality(CapSeqs(query)) = 2
    /\ \A c \in CapSeqs(query) : c[2] - c[1] = 3
    /\ result = PyStr(<<"V","a","n","s">>)

(***************************************************************************)
(* Further properties of the context formatter (checked under SpecContext) *)
(***************************************************************************)
\* the row of the i-th hit returned by the search (rows as first assigned)
HitRow(i) == ctx.rows0[i]

\* the position of the first hit whose case-insensitive (brand, name) pair is k
FirstWithKey(k) ==
    CHOOSE i \in 1..Len(search.hits) :
        /\ KeyOf(HitRow(i)) = k
        /\ \A j \in 1..(i - 1) : KeyOf(HitRow(j)) # k

\* no hit has the brand of the hint, letter case ignored
NoHitOfHintedBrand ==
    /\ Truthy(ctx.brand_hint)
    /\ \A i \in 1..Len(search.hits) : lower(HitRow(i).brand) # lower(ctx.brand_hint.s)

\* C25: when a brand hint is present but no row has that brand
\* (case-insensitively), the rows used are all the rows of the hits; a
\* non-empty hit list always gives an "Items:" block with at least one row and
\* never the text "No relevant context found.".
C25_FilterDiscardedWhenEmpty ==
    Searched =>
        /\ NoHitOfHintedBrand =>
              /\ ctx.rows = [i \in 1..Len(search.hits) |-> HitRow(i)]
              /\ \A i \in 1..Len(search.hits) :
                     \E j \in 1..Len(ctx.unique) : KeyOf(ctx.unique[j]) = KeyOf(HitRow(i))
        /\ ctx.ret[1] = "Items:"
        /\ Len(ctx.items) >= 1
        /\ RenderedRows(ctx.ret) >= 1
        /\ \A i \in 1..Len(ctx.ret) : ctx.ret[i] # NO_CONTEXT[1]

C25_Witness ==
    /\ Searched
    /\ NoHitOfHintedBrand
    /\ \E i \in 1..Len(search.hits) : HitRow(i).brand = W_Vans
    /\ \E j \in 1..Len(ctx.items) : ctx.items[j].brand = W_Vans

\* C26: no two rendered rows have the same case-insensitive (brand, name)
\* pair; a rendered row is the row of the first hit with its pair, and the
\* rendered rows are in the order in which their hits were returned.
C26_DedupeKeepsFirstInOrder ==
    Searched =>
        /\ RenderedRows(ctx.ret) = Len(ctx.items)
        /\ \A i, j \in 1..Len(ctx.items) :
               i # j => KeyOf(ctx.items[i]) # KeyOf(ctx.items[j])
        /\ \A i \in 1..Len(ctx.items) :
               ctx.items[i] = HitRow(FirstWithKey(KeyOf(ctx.items[i])))
        /\ \A i, j \in 1..Len(ctx.items) :
               i < j => FirstWithKey(KeyOf(ctx.items[i])) < FirstWithKey(KeyOf(ctx.items[j]))

\* two hits of the same pair that differ: only the first is rendered
C26_Witness ==
    /\ Searched
    /\ \E i, j \in 1..Len(search.hits) :
           /\ i < j
           /\ KeyOf(HitRow(i)) = KeyOf(HitRow(j))
           /\ HitRow(i) # HitRow(j)
           /\ \E k \in 1..Len(ctx.items) : ctx.items[k] = HitRow(i)
           /\ \A k \in 1..Len(ctx.items) : ctx.items[k] # HitRow(j)

\* the itemized entry of the row r
EntryOf(r) ==
    <<"- ">> \o r.brand \o <<" ">> \o r.name \o <<" (">> \o r.color \o <<", ">> \o r.gender
    \o <<"), Price: ">> \o r.price \o <<"\n  ">> \o r.description

\* the pipe-delimited line of the row r
PipeLineOf(r) ==
    r.brand \o <<" | ">> \o r.name \o <<" | ">> \o r.color \o <<" | ">> \o r.gender
    \o <<" | ">> \o r.price

\* the entries of the first n selected rows, each on a new line
RECURSIVE EntryBlock(_)
EntryBlock(n) ==
    IF n = 0 THEN <<>> ELSE EntryBlock(n - 1) \o <<"\n">> \o EntryOf(ctx.items[n])

\* the pipe-delimited lines of the first n selected rows, each on a new line
RECURSIVE PipeBlock(_)
PipeBlock(n) ==
    IF n = 0 THEN <<>> ELSE PipeBlock(n - 1) \o <<"\n">> \o PipeLineOf(ctx.items[n])

\* C27: for a non-empty hit list the context is the "Items:" header, one
\* itemized entry per selected row, the "Summary:" subheader and one
\* pipe-delimited line per selected row; both blocks list the same rows,
\* each once, in the same order.
C27_TwoBlocksSameRows ==
    Searched =>
        /\ ctx.ret = <<"Items:">> \o EntryBlock(Len(ctx.items))
                     \o <<"\n", "\nSummary:">> \o PipeBlock(Len(ctx.items))
        /\ RenderedRows(ctx.ret) = Len(ctx.items)
        /\ SummaryRows(ctx.ret) = Len(ctx.items)

C27_Witness ==
    /\ Searched
    /\ Len(ctx.items) = 3
    /\ SummaryRows(ctx.ret) = 3
    /\ ctx.items[1] # ctx.items[2] /\ ctx.items[2] # ctx.items[3]

(***************************************************************************)
(* Properties of a conversation (checked under SpecChat)                   *)
(***************************************************************************)
\* a is b or the beginning of b
IsPrefix(a, b) == Len(a) <= Len(b) /\ SubSeq(b, 1, Len(a)) = a

\* h holds whole turns: a user entry, then an assistant entry, and so on
Alternating(h) ==
    /\ Len(h) % 2 = 0
    /\ \A i \in 1..Len(h) :
           h[i][1] = (IF i % 2 = 1 THEN "User: " ELSE "Assistant: ")

\* C29: starting from an empty history and feeding each returned history into
\* the next call, every successful call returns the history it was given
\* followed by one user entry and one assistant entry (2n entries after n
\* successful calls, alternating, a user entry first); the history carried
\* forward only ever grows at its end, and only by a successful call: a
\* failed call adds nothing.
C29_HistoryGrowsByTurns ==
    /\ [](/\ Alternating(history)
          /\ (pc = "returned" /\ ret.raised = "none") =>
                 /\ Alternating(ret.new_history)
                 /\ Len(ret.new_history) = Len(history) + 2
                 /\ IsPrefix(history, ret.new_history))
    /\ [][/\ IsPrefix(history, history')
          /\ history' # history =>
                 (pc = "returned" /\ ret.raised = "none" /\ history' = ret.new_history)]_vars

\* the second successful call has returned
C29_Witness ==
    /\ pc = "returned"
    /\ ret.raised = "none"
    /\ Len(history) = 2
    /\ Len(ret.new_history) = 4
    /\ ret.new_history[3] = UserTurn(query)

(***************************************************************************)
(* Properties of ensure_pinecone_index (checked under SpecIndexLive)       *)
(***************************************************************************)
\* the service lists the index and describes it as ready
IndexReady ==
    /\ local.index_name \in DOMAIN pinecone.indexes
    /\ pinecone.indexes[local.index_name].ready

\* the dimension of the index is the requested one
DimensionMatches == pinecone.indexes[local.index_name].dimension = local.dimension

\* the call c was made
Called(c) == \E i \in 1..Len(ops) : ops[i] = c

EnsureDone == pc \in {"ensure_returned", "ensure_raised"}

\* C21: ensure_pinecone_index creates the index if and only if no index of
\* that name is listed; it returns a handle only after describe_index has
\* reported ready, and does return or raise once the index is ready; it raises
\* RuntimeError and returns no handle whenever the ready index's dimension
\* differs from the requested one, for an existing and for a newly created
\* index alike.
C21_EnsureIndex ==
    /\ [][pc = "ensure_call" /\ pc' # "ensure_call" =>
             /\ Count(ops', "create_index") =
                    (IF local.index_name \in DOMAIN pinecone.indexes THEN 0 ELSE 1)
             /\ local.index_name \in DOMAIN pinecone'.indexes]_vars
    /\ [][Count(ops', "create_index") # Count(ops, "create_index") => pc = "ensure_call"]_vars
    /\ [](Called("Index") => (pc = "ensure_returned" /\ IndexReady /\ DimensionMatches))
    /\ [](pc = "ensure_returned" =>
             /\ Called("Index") /\ local.outcome = "handle"
             /\ ops[Len(ops) - 1] = "describe_index")
    /\ [](pc = "ensure_raised" =>
             /\ local.outcome = "RuntimeError" /\ ~Called("Index")
             /\ IndexReady /\ ~DimensionMatches)
    /\ [](EnsureDone /\ ~DimensionMatches => pc = "ensure_raised")
    /\ (IndexReady ~> EnsureDone)
    /\ ((IndexReady /\ DimensionMatches) ~> pc = "ensure_returned")

\* a newly created index, polled while not ready, with another dimension
C21_Witness ==
    /\ pc = "ensure_raised"
    /\ ~local.exists
    /\ Called("create_index")
    /\ local.polls >= 1
    /\ local.outcome = "RuntimeError"

(***************************************************************************)
(* Properties of the catalog sync (checked under SpecSync)                 *)
(***************************************************************************)
\* the least number of batches of b items that hold n items
CeilDiv(n, b) == CHOOSE k \in 0..n : k * b >= n /\ (k = 0 \/ (k - 1) * b < n)

\* the item upserted for the product r
ItemOf(r) ==
    <<str(r.id), <<"embedding of", build_text(r)>>,
      [id |-> r.id, name |-> r.name, description |-> r.description, brand |-> r.brand,
       gender |-> r.gender, price |-> r.price,
       price_display |-> sync_pinecone_format_price(r.price, <<"$">>),
       primaryColor |-> r.primaryColor]>>

\* the places (upsert, position) at which the id of the k-th product is upserted
PlacesOf(k) ==
    {pl \in (1..Len(pinecone.upserts)) \X (1..local.batch_size) :
        /\ pl[2] <= Len(pinecone.upserts[pl[1]])
        /\ pinecone.upserts[pl[1]][pl[2]][1] = str(df[k].id)}

\* C22: a sync of n products with batch size b >= 1 that runs to its end makes
\* exactly ceil(n/b) upserts (none when n = 0); the i-th upsert (from 0)
\* carries the products at positions i*b .. min(n, (i+1)*b) - 1 in fetch
\* order; every product id is upserted exactly once, no batch exceeds b items,
\* and each item pairs the product's id with its own vector and metadata.
C22_BatchedUpserts ==
    pc = "main_returned" =>
        LET n == Len(df)
            b == local.batch_size
            u == pinecone.upserts
        IN  /\ Len(u) = CeilDiv(n, b)
            /\ n = 0 => u = <<>>
            /\ \A i \in 0..(Len(u) - 1) :
                   /\ Len(u[i + 1]) = Min(n, (i + 1) * b) - i * b
                   /\ Len(u[i + 1]) <= b
                   /\ \A j \in 1..Len(u[i + 1]) : u[i + 1][j] = ItemOf(df[i * b + j])
            /\ \A k \in 1..n : Cardinality(PlacesOf(k)) = 1

\* three products in batches of two: two upserts, the second of one item
C22_Witness ==
    /\ pc = "main_returned"
    /\ Len(df) = 3
    /\ local.batch_size = 2
    /\ Len(pinecone.upserts) = 2
    /\ Len(pinecone.upserts[2]) = 1
    /\ pinecone.upserts[2][1][1] = str(df[3].id)

(***************************************************************************)
(* Properties of load_csv_to_db (checked under SpecLoad)                   *)
(***************************************************************************)
\* the calls on the store that are creates, in order
RECURSIVE CreatesIn(_)
CreatesIn(calls) ==
    IF calls = <<>> THEN <<>>
    ELSE (IF calls[1].op = "create" THEN <<calls[1].data>> ELSE <<>>) \o CreatesIn(Tail(calls))

\* the field of the create data for a CSV cell: None when the cell is missing
FieldOf(cell) == IF cell.t = "NaN" THEN PyNone ELSE PyStr(str(cell))

LoadEnded == pc \in {"load_returned", "load_raised"}

\* C23: every run of load_csv_to_db connects exactly once before any create,
\* issues exactly one create per CSV row in CSV order (missing optional fields
\* become None), and disconnects exactly once after the last create; when the
\* run ends the number of connects equals the number of disconnects.
C23_ConnectCreateDisconnect ==
    /\ pc # "load_call" => (client.connect_calls = 1 /\ ops[1].op = "connect")
    /\ \A i \in 1..Len(ops) : ops[i].op = "connect" => i = 1
    /\ \A i \in 1..Len(CreatesIn(ops)) :
           /\ CreatesIn(ops)[i].brand = FieldOf(df[i].ProductBrand)
           /\ CreatesIn(ops)[i].price = FieldOf(df[i].Price)
           /\ CreatesIn(ops)[i].description = FieldOf(df[i].Description)
    /\ LoadEnded =>
           /\ Len(CreatesIn(ops)) = Len(df)
           /\ client.disconnect_calls = 1
           /\ ops[Len(ops)].op = "disconnect"
           /\ client.connect_calls = client.disconnect_calls

====
